---------------------------- MODULE Spec2Model ----------------------------
(***************************************************************************)
(* A model of the Agones GameServerSet reconciler                          *)
(* (pkg/gameserversets/controller.go), of the dynamic port allocator      *)
(* (pkg/gameservers/portallocator.go) and of the worker queue              *)
(* (pkg/util/workerqueue/workerqueue.go).                                  *)
(*                                                                         *)
(* The module holds several specifications over one set of variables:      *)
(*   SpecRecon  computeReconciliationAction applied to bounded inputs      *)
(*   SpecReconApply  the same, with the action carried out on the list    *)
(*   SpecSync   syncGameServerSet interleaved with an external allocator   *)
(*   SpecAlloc  PortAllocator.Allocate / DeAllocate call sequences         *)
(*   SpecPA     the same with syncAll over an observed cluster             *)
(*   SpecAllocConc  Allocate and DeAllocate called from several goroutines *)
(*   SpecPar    one call of parallelize with its producer goroutine;       *)
(*              SpecParFair adds the scheduling of the goroutines          *)
(*   SpecWQ     the worker queue: enqueues, Run, its workers, the stop     *)
(*   SpecWQFair SpecWQ with the scheduling of goroutines and timers        *)
(*   SpecDefaults  GameServer.ApplyDefaults applied to submitted objects   *)
(*   SpecHealth the health controller over one GameServer and its pod      *)
(*   SpecCtl    the GameServerSet controller: watches, queue, worker,      *)
(*              listers and state cache; SpecCtlFair adds its scheduling   *)
(*   SpecCtlBatch  the controller over a set larger than one batch         *)
(*   SpecCtlConv  the running controller over both kinds of set            *)
(* A specification leaves the variables of the other parts at their        *)
(* initial values.                                                         *)
(***************************************************************************)
EXTENDS Integers, Sequences, FiniteSets, TLC

VARIABLES
    \* ---- computeReconciliationAction: its arguments and its result
    list,                \* []*GameServer, each [state, deletionTimestamp, created]
    targetReplicaCount,
    maxCreations,
    maxDeletions,
    maxPending,
    action,              \* the returned triple, or NoAction before the call
    applied,             \* the list once the action is applied to it
    \* ---- PortAllocator and the cluster objects it reads
    portAllocations,     \* pa.portAllocations: a sequence of maps port -> taken
    gameServerRegistry,  \* pa.gameServerRegistry: the set of registered UIDs
    gameservers,         \* UID -> GameServer [ports, nodeName], or NoGameServer
    nodes,               \* node name -> "schedulable" | "unschedulable" | "absent"
    paStatus,            \* "ok", or "overflow" once Allocate recurses without end
    callTrace,           \* the first allocator calls, in order
    \* ---- syncGameServerSet and the GameServers of the set in the API server
    store,               \* the GameServer objects of the set, each [state, deletionTimestamp, created]
    listerCache,         \* the same objects as the GameServer lister shows them
    storeEvents,         \* the watch events the informer has not applied yet
    pc,                  \* "idle" | "adding" | "deleting" | "done" | "error"
    createChannel,       \* the GameServers of toAdd still in the creation channel
    deleteChannel,       \* the indices of toDelete still in the deletion channel
    allocationMutex,     \* "free", or who holds the shared mutex
    allocating,          \* the index the allocator picked under the mutex, or 0
    gssStatus,           \* the status written by syncGameServerSetStatus
    \* ---- WorkerQueue, its client-go queue and its goroutines
    queue,               \* the keys of the queue, in the order Get returns them
    dirty,               \* the keys added and not yet handed to a worker
    processing,          \* the keys between Get and Done
    waitingForAdd,       \* key -> adds the rate limiter still holds back
    failures,            \* key -> the rate limiter's count of requeues
    shuttingDown,        \* queue.ShutDown was called
    stopClosed,          \* the stop channel is closed
    workers,             \* wq.workers
    running,             \* wq.running
    runPc,               \* Run: "init" | "waiting" | "returned"
    goroutines,          \* worker -> [pc, key]
    hist,                \* key -> what was called and invoked for it so far
    lastHealthy,         \* the answer of Healthy, if called since the last step
    \* ---- GameServer.ApplyDefaults
    gameServer,          \* the GameServer the defaults are applied to
    applications,        \* how often ApplyDefaults ran on it
    afterFirst,          \* gameServer as the first application left it
    \* ---- HealthController
    hcState,             \* the state of the GameServer in the lister, or absent
    hcApi,               \* the state of the GameServer in the API server, or absent
    hcWatch,             \* the watch events of the GameServer not yet delivered
    hcPod,               \* the pod of the GameServer in the pod lister
    hcQueued,            \* the key of the GameServer is in the queue
    hcCauses,            \* the predicates the pod events that enqueued it showed
    hcFailures,          \* the pod events so far that showed a predicate
    hcUpdates,           \* the GameServer updates the controller issued
    hcEvents,            \* the pod events delivered so far
    hcChanges,           \* the changes others made to the GameServer so far
    hcLast,              \* what the last syncGameServer saw and did
    \* ---- the GameServerSet controller at work on one set
    cluster,             \* the GameServers in the API server by UID, Gone once deleted
    gsEvents,            \* the watch events of GameServers not yet delivered
    lister,              \* the GameServers as the lister shows them, by UID
    gsNotify,            \* the callbacks the GameServer informer still owes
    shadow,              \* the state cache of the set: UID -> intent
    replicas,            \* gsSet.Spec.Replicas
    statusApi,           \* gsSet.Status in the API server
    gssEvents,           \* the watch events of the set not yet delivered
    statusLister,        \* gsSet.Status as the GameServerSet lister shows it
    ctlQueue,            \* the controller's queue: [queue, dirty, processing]
    ctlWaiting,          \* the adds the rate limiter holds back
    ctlDown,             \* stop is closed and the queue shut down
    ctlPc,               \* the worker: "get" | "sync" | "list" | "reconcile" | "work" |
                         \*   "deferred" | "result" | "done" | "exited"
    apiFailures,         \* the API calls that failed so far
    expiredEarly,        \* a created entry aged out before a list showed the GameServer
    pass,                \* the local variables of the pass at work, or of the last one
    \* ---- DeAllocate calls between the registry check and the write lock
    inFlight,            \* slot -> [uid, gs] of a call that passed found(), or NoCall
    \* ---- parallelize (controller.go:485-513) and the goroutine feeding it
    parallelism,         \* number of worker goroutines
    parItems,            \* number of items the producer sends
    parSent,             \* items handed over so far (unbuffered channel)
    parClosed,           \* the producer closed the channel
    parWorkers,          \* worker -> [pc, item]; pc: "recv" | "work" | "send" | "done"
    parErrch,            \* errch: the errors buffered, as the items they come from
    parMain,             \* parallelize itself: "wait" | "drain" | "returned"
    parResult,           \* the error parallelize returned (NoError for nil)
    parInvoked,          \* item -> number of times work was called with it
    parProduced,         \* the items whose callback failed, in the order they returned
    parDrained           \* the items taken by the draining loop

reconVars == <<list, targetReplicaCount, maxCreations, maxDeletions, maxPending, action,
               applied>>

paVars == <<portAllocations, gameServerRegistry, gameservers, nodes, paStatus, callTrace>>

syncVars == <<store, listerCache, storeEvents, pc, createChannel, deleteChannel,
              allocationMutex, allocating, gssStatus>>

wqVars == <<queue, dirty, processing, waitingForAdd, failures, shuttingDown, stopClosed,
            workers, running, runPc, goroutines, hist, lastHealthy>>

defVars == <<gameServer, applications, afterFirst>>

hcVars == <<hcState, hcApi, hcWatch, hcPod, hcQueued, hcCauses, hcFailures, hcUpdates, hcEvents, hcChanges, hcLast>>

ctlVars == <<cluster, gsEvents, lister, gsNotify, shadow, replicas, statusApi, gssEvents,
             statusLister, ctlQueue, ctlWaiting, ctlDown, ctlPc, apiFailures, expiredEarly,
             pass>>

concVars == <<inFlight>>

parVars == <<parallelism, parItems, parSent, parClosed, parWorkers, parErrch, parMain,
             parResult, parInvoked, parProduced, parDrained>>

moreVars == <<concVars, parVars>>

extVars == <<defVars, hcVars, ctlVars, moreVars>>

vars == <<reconVars, paVars, syncVars, wqVars, extVars>>

(***************************************************************************)
(* Generic helpers                                                         *)
(***************************************************************************)
Range(s) == {s[i] : i \in DOMAIN s}

Max(a, b) == IF a >= b THEN a ELSE b

Min(a, b) == IF a <= b THEN a ELSE b

\* all sequences over S of length 0..n
SeqsUpTo(S, n) == UNION {[1..k -> S] : k \in 0..n}

(***************************************************************************)
(* GameServer states (v1alpha1 constants).  "Unknown" stands for any       *)
(* string that is none of the ten declared states.                         *)
(***************************************************************************)
GameServerStatePortAllocation == "PortAllocation"
GameServerStateCreating == "Creating"
GameServerStateStarting == "Starting"
GameServerStateScheduled == "Scheduled"
GameServerStateRequestReady == "RequestReady"
GameServerStateReady == "Ready"
GameServerStateShutdown == "Shutdown"
GameServerStateError == "Error"
GameServerStateUnhealthy == "Unhealthy"
GameServerStateAllocated == "Allocated"

GameServerStates ==
    { GameServerStatePortAllocation, GameServerStateCreating, GameServerStateStarting,
      GameServerStateScheduled, GameServerStateRequestReady, GameServerStateReady,
      GameServerStateShutdown, GameServerStateError, GameServerStateUnhealthy,
      GameServerStateAllocated }

UnknownState == "Unknown"

(***************************************************************************)
(* Bounds of the reconciler inputs                                         *)
(***************************************************************************)
MaxList == 3        \* longest list handed to computeReconciliationAction
MaxTarget == 3      \* largest spec.replicas
MaxTime == 2        \* creation timestamps are 1..MaxTime

\* batch caps and worker counts of the controller, batch caps of its unit test
maxCreationParalellism == 16
maxDeletionParallelism == 64
maxGameServerCreationsPerBatch == 64
maxGameServerDeletionsPerBatch == 64
maxPodPendingCount == 5000
maxTestCreationsPerBatch == 3
maxTestDeletionsPerBatch == 3
maxTestPendingPerBatch == 3

\* <<maxCreations, maxDeletions, maxPending>> triples tried: caps that bind on
\* short lists, the test's caps and the controller's defaults
CapChoices ==
    { <<1, 1, 1>>, <<2, 2, 2>>,
      <<maxTestCreationsPerBatch, maxTestDeletionsPerBatch, maxTestPendingPerBatch>>,
      <<maxGameServerCreationsPerBatch, maxGameServerDeletionsPerBatch, maxPodPendingCount>> }

(***************************************************************************)
(* A GameServer as computeReconciliationAction reads it: Status.State,     *)
(* ObjectMeta.DeletionTimestamp and CreationTimestamp.  DeletionTimestamp  *)
(* is a *metav1.Time: a nil pointer, a pointer to the zero time (an object *)
(* built by a caller; the API server never returns one) or a pointer to    *)
(* the time the deletion was asked for.  The inputs keep every state; a    *)
(* later creation time and a deletion timestamp are tried on the states    *)
(* where the function can tell them apart from the plain case.             *)
(***************************************************************************)
NilTime == "nil"
ZeroTime == "zero"
SetTime == "set"

GameServerKinds ==
    { g \in [state : GameServerStates \cup {UnknownState},
             deletionTimestamp : {NilTime, ZeroTime, SetTime}, created : 1..MaxTime] :
        /\ g.created > 1 => g.state \in {GameServerStateReady, GameServerStateUnhealthy}
                             /\ g.deletionTimestamp = NilTime
        /\ g.deletionTimestamp = SetTime =>
              g.state \in {GameServerStateReady, GameServerStateUnhealthy, GameServerStateError,
                           GameServerStateAllocated}
        /\ g.deletionTimestamp = ZeroTime =>
              g.state \in {GameServerStateReady, GameServerStateAllocated} }

(***************************************************************************)
(* computeReconciliationAction, controller.go:310-417                      *)
(***************************************************************************)
\* gs.ObjectMeta.DeletionTimestamp.IsZero(): true of a nil pointer and of the
\* zero time
DeletionTimestampIsZero(gs) == gs.deletionTimestamp \in {NilTime, ZeroTime}

\* isAllocated, lines 419-421: DeletionTimestamp == nil
isAllocated(gs) == gs.deletionTimestamp = NilTime /\ gs.state = GameServerStateAllocated

\* the closure scheduleDeletion; acc is [up, pending, toDelete], i the index of gs
scheduleDeletion(acc, l, i) ==
    IF DeletionTimestampIsZero(l[i])
    THEN [acc EXCEPT !.toDelete = Append(@, i)]
    ELSE acc

\* handleGameServerUp that compares the count after the increment
handleGameServerUp_OffByOne(acc, l, i, target) ==
    IF acc.up + 1 >= target
    THEN scheduleDeletion(acc, l, i)
    ELSE [acc EXCEPT !.up = @ + 1]

\* the closure handleGameServerUp
handleGameServerUp(acc, l, i, target) ==
    IF acc.up >= target
    THEN scheduleDeletion(acc, l, i)
    ELSE [acc EXCEPT !.up = @ + 1]

\* pass 1: count allocated servers only
RECURSIVE CountAllocated(_, _)
CountAllocated(l, i) ==
    IF i > Len(l) THEN 0
    ELSE (IF isAllocated(l[i]) THEN 1 ELSE 0) + CountAllocated(l, i + 1)

\* Pass2Step without the "already handled above" skip of allocated servers
Pass2Step_NoAllocatedSkip(acc, l, i, target) ==
    LET gs == l[i]
        pend == [acc EXCEPT !.pending = @ + 1]
    IN  IF ~DeletionTimestampIsZero(gs) THEN acc
        ELSE CASE gs.state \in {GameServerStatePortAllocation, GameServerStateCreating,
                                GameServerStateStarting, GameServerStateScheduled} ->
                    handleGameServerUp(pend, l, i, target)
               [] gs.state \in {GameServerStateError, GameServerStateUnhealthy} -> scheduleDeletion(acc, l, i)
               [] OTHER -> handleGameServerUp(acc, l, i, target)

\* Pass2Step that counts a GameServer being deleted as up
Pass2Step_DeletingCountsUp(acc, l, i, target) ==
    LET gs == l[i]
        pend == [acc EXCEPT !.pending = @ + 1]
    IN  IF isAllocated(gs) THEN acc
        ELSE IF ~DeletionTimestampIsZero(gs) THEN handleGameServerUp(acc, l, i, target)
        ELSE CASE gs.state \in {GameServerStatePortAllocation, GameServerStateCreating,
                                GameServerStateStarting, GameServerStateScheduled} ->
                    handleGameServerUp(pend, l, i, target)
               [] gs.state \in {GameServerStateError, GameServerStateUnhealthy} -> scheduleDeletion(acc, l, i)
               [] OTHER -> handleGameServerUp(acc, l, i, target)

\* Pass2Step that treats Error and Unhealthy like an unrecognized state
Pass2Step_FailedCountsUp(acc, l, i, target) ==
    LET gs == l[i]
        pend == [acc EXCEPT !.pending = @ + 1]
    IN  IF isAllocated(gs) THEN acc
        ELSE IF ~DeletionTimestampIsZero(gs) THEN acc
        ELSE CASE gs.state \in {GameServerStatePortAllocation, GameServerStateCreating,
                                GameServerStateStarting, GameServerStateScheduled} ->
                    handleGameServerUp(pend, l, i, target)
               [] OTHER -> handleGameServerUp(acc, l, i, target)

\* Pass2Step that schedules a GameServer being deleted for deletion again
Pass2Step_DeletingScheduled(acc, l, i, target) ==
    LET gs == l[i]
        pend == [acc EXCEPT !.pending = @ + 1]
    IN  IF isAllocated(gs) THEN acc
        ELSE IF ~DeletionTimestampIsZero(gs) THEN [acc EXCEPT !.toDelete = Append(@, i)]
        ELSE CASE gs.state \in {GameServerStatePortAllocation, GameServerStateCreating,
                                GameServerStateStarting, GameServerStateScheduled} ->
                    handleGameServerUp(pend, l, i, target)
               [] gs.state \in {GameServerStateError, GameServerStateUnhealthy} -> scheduleDeletion(acc, l, i)
               [] OTHER -> handleGameServerUp(acc, l, i, target)

\* the body of the pass 2 loop for element i
Pass2Step(acc, l, i, target) ==
    LET gs == l[i]
        pend == [acc EXCEPT !.pending = @ + 1]
    IN  IF isAllocated(gs) THEN acc
        ELSE IF ~DeletionTimestampIsZero(gs) THEN acc
        ELSE CASE gs.state = GameServerStatePortAllocation -> handleGameServerUp(pend, l, i, target)
               [] gs.state = GameServerStateCreating -> handleGameServerUp(pend, l, i, target)
               [] gs.state = GameServerStateStarting -> handleGameServerUp(pend, l, i, target)
               [] gs.state = GameServerStateScheduled -> handleGameServerUp(pend, l, i, target)
               [] gs.state = GameServerStateRequestReady -> handleGameServerUp(acc, l, i, target)
               [] gs.state = GameServerStateReady -> handleGameServerUp(acc, l, i, target)
               [] gs.state = GameServerStateShutdown -> handleGameServerUp(acc, l, i, target)
               [] gs.state \in {GameServerStateError, GameServerStateUnhealthy} -> scheduleDeletion(acc, l, i)
               [] OTHER -> handleGameServerUp(acc, l, i, target)

\* the pass 2 loop from element i on; the step is worked out before the loop
\* goes on to the next element
RECURSIVE Pass2(_, _, _, _)
Pass2(acc, l, i, target) ==
    IF i > Len(l) THEN acc
    ELSE LET next == Pass2Step(acc, l, i, target)
         IN  IF next = acc THEN Pass2(acc, l, i + 1, target)
             ELSE Pass2(next, l, i + 1, target)

\* upCount, podPendingCount and toDelete (indices into l) after both passes
Classify(l, target) ==
    Pass2([up |-> CountAllocated(l, 1), pending |-> 0, toDelete |-> <<>>], l, 1, target)

\* ComputeAdd without the clamp of maxPending - podPendingCount at zero
ComputeAdd_NoClamp(up, pending, target, maxCreate, maxPend) ==
    IF up < target
    THEN LET original == target - up
             capped == IF original > maxCreate THEN maxCreate ELSE original
             n == IF capped + pending > maxPend THEN maxPend - pending ELSE capped
         IN  [toAdd |-> n, partial |-> original # n]
    ELSE [toAdd |-> 0, partial |-> FALSE]

\* ComputeAdd without the cap on pods pending
ComputeAdd_NoPendingCap(up, pending, target, maxCreate, maxPend) ==
    IF up < target
    THEN LET original == target - up
             capped == IF original > maxCreate THEN maxCreate ELSE original
         IN  [toAdd |-> capped, partial |-> original # capped]
    ELSE [toAdd |-> 0, partial |-> FALSE]

\* numServersToAdd and the creation half of partialReconciliation, lines 383-404
ComputeAdd(up, pending, target, maxCreate, maxPend) ==
    IF up < target
    THEN LET original == target - up
             capped == IF original > maxCreate THEN maxCreate ELSE original
             n == IF capped + pending > maxPend
                  THEN (IF maxPend - pending < 0 THEN 0 ELSE maxPend - pending)
                  ELSE capped
         IN  [toAdd |-> n, partial |-> original # n]
    ELSE [toAdd |-> 0, partial |-> FALSE]

\* a comparison that sorts the oldest first
NewerFirst_OlderFirst(l, a, b) == l[a].created < l[b].created

\* the comparison handed to sort.Slice: newest first
NewerFirst(l, a, b) == l[a].created > l[b].created

\* sort.Slice is not stable: every ordering of cand in which no element is
\* followed by a newer one is a possible outcome
SortedNewestFirst(l, cand) ==
    { s \in [1..Len(cand) -> Range(cand)] :
        /\ \A i, j \in 1..Len(cand) : i # j => s[i] # s[j]
        /\ \A i, j \in 1..Len(cand) : i < j => ~NewerFirst(l, s[j], s[i]) }

\* computeReconciliationAction that truncates without reporting it
ReconciliationActions_SilentTruncation(l, target, maxCreate, maxDelete, maxPend) ==
    LET c == Classify(l, target)
        add == ComputeAdd(c.up, c.pending, target, maxCreate, maxPend)
    IN  IF Len(c.toDelete) > maxDelete
        THEN { [toAdd |-> add.toAdd, toDelete |-> SubSeq(s, 1, maxDelete), partial |-> add.partial,
                up |-> c.up, podPending |-> c.pending, candidates |-> c.toDelete] :
               s \in SortedNewestFirst(l, c.toDelete) }
        ELSE { [toAdd |-> add.toAdd, toDelete |-> c.toDelete, partial |-> add.partial,
                up |-> c.up, podPending |-> c.pending, candidates |-> c.toDelete] }

\* computeReconciliationAction that keeps the end of the sorted candidates
ReconciliationActions_KeepTail(l, target, maxCreate, maxDelete, maxPend) ==
    LET c == Classify(l, target)
        add == ComputeAdd(c.up, c.pending, target, maxCreate, maxPend)
    IN  IF Len(c.toDelete) > maxDelete
        THEN { [toAdd |-> add.toAdd,
                toDelete |-> SubSeq(s, Len(s) - maxDelete + 1, Len(s)), partial |-> TRUE,
                up |-> c.up, podPending |-> c.pending, candidates |-> c.toDelete] :
               s \in SortedNewestFirst(l, c.toDelete) }
        ELSE { [toAdd |-> add.toAdd, toDelete |-> c.toDelete, partial |-> add.partial,
                up |-> c.up, podPending |-> c.pending, candidates |-> c.toDelete] }

\* the results computeReconciliationAction can return
ReconciliationActions(l, target, maxCreate, maxDelete, maxPend) ==
    LET c == Classify(l, target)
        add == ComputeAdd(c.up, c.pending, target, maxCreate, maxPend)
    IN  IF Len(c.toDelete) > maxDelete
        THEN { [toAdd |-> add.toAdd, toDelete |-> SubSeq(s, 1, maxDelete), partial |-> TRUE,
                up |-> c.up, podPending |-> c.pending, candidates |-> c.toDelete] :
               s \in SortedNewestFirst(l, c.toDelete) }
        ELSE { [toAdd |-> add.toAdd, toDelete |-> c.toDelete, partial |-> add.partial,
                up |-> c.up, podPending |-> c.pending, candidates |-> c.toDelete] }

NoAction == [toAdd |-> -1, toDelete |-> <<>>, partial |-> FALSE,
             up |-> -1, podPending |-> -1, candidates |-> <<>>]

\* no action was applied to the list
NotApplied == [done |-> FALSE, list |-> <<>>]

\* the elements of l from index i on whose index is not in del
RECURSIVE Remaining(_, _, _)
Remaining(l, del, i) ==
    IF i > Len(l) THEN <<>>
    ELSE (IF i \in del THEN <<>> ELSE <<l[i]>>) \o Remaining(l, del, i + 1)

\* the list once action a is carried out: the GameServers of a.toDelete are
\* gone and a.toAdd new ones, in state st, are there
Applied(l, a, st) ==
    Remaining(l, Range(a.toDelete), 1)
        \o [j \in 1..a.toAdd |-> [state |-> st, deletionTimestamp |-> NilTime, created |-> MaxTime]]

(***************************************************************************)
(* PortAllocator, portallocator.go                                         *)
(***************************************************************************)
\* the window handed to NewPortAllocator (scenario S6: [7000, 7002])
minPort == 7000
maxPort == 7002

NumGS == 2           \* GameServers created in a run
MaxNodeMaps == 2     \* Allocate is not called when it would need more maps

Window == minPort..maxPort

\* a host port outside the window, for static ports and for ports recorded
\* under an earlier window
OutsidePort == maxPort + 1

Static == "static"
Dynamic == "dynamic"

NodeNames == {"n1", "n2"}

\* the clusters tried: no node, one node, one node beside a cordoned one, two nodes
NodeConfigs ==
    { [n \in NodeNames |-> "absent"],
      [n \in NodeNames |-> IF n = "n1" THEN "schedulable" ELSE "absent"],
      [n \in NodeNames |-> IF n = "n1" THEN "schedulable" ELSE "unschedulable"],
      [n \in NodeNames |-> "schedulable"] }

NoGameServer == [ports |-> <<>>, nodeName |-> "-"]

\* a GameServer whose delete event the informer has delivered
DeletedGameServer == [ports |-> <<>>, nodeName |-> "deleted"]

\* callTrace once more than TraceLen calls were made
TraceOverflow == <<[op |-> "...", uid |-> 0, found |-> FALSE, appended |-> 0]>>

\* at most this many calls are kept in callTrace
TraceLen == 3

\* Spec.Ports of the GameServers handed to the allocator: a dynamic port
\* carries no host port yet (Validate rejects one), a static port carries the
\* user's; the last one is an object that did not pass Validate
PortTemplates ==
    { <<[policy |-> Dynamic, hostPort |-> 0]>>,
      <<[policy |-> Dynamic, hostPort |-> 0], [policy |-> Dynamic, hostPort |-> 0]>>,
      <<[policy |-> Static, hostPort |-> OutsidePort]>>,
      <<[policy |-> Static, hostPort |-> minPort], [policy |-> Dynamic, hostPort |-> 0]>>,
      <<[policy |-> Dynamic, hostPort |-> 0], [policy |-> Static, hostPort |-> OutsidePort]>>,
      <<[policy |-> Dynamic, hostPort |-> OutsidePort]>> }

\* reading a Go map: a missing key reads as false
Lookup(np, port) == IF port \in DOMAIN np THEN np[port] ELSE FALSE

\* np[port] = taken on a Go map: the key is added when missing
MapSet(np, port, taken) ==
    [q \in DOMAIN np \cup {port} |-> IF q = port THEN taken ELSE np[q]]

\* PortAllocator.newPortAllocation
newPortAllocation == [p \in Window |-> FALSE]

\* GameServer.CountPorts
CountPorts(gs, policy) == Cardinality({i \in DOMAIN gs.ports : gs.ports[i].policy = policy})

\* setPortAllocation without the break: every map that disagrees is flipped
setPortAllocation_NoBreak(port, allocations, taken) ==
    [n \in DOMAIN allocations |->
        IF Lookup(allocations[n], port) # taken
        THEN [q \in DOMAIN allocations[n] \cup {port} |-> IF q = port THEN taken ELSE allocations[n][q]]
        ELSE allocations[n]]

\* setPortAllocation: flips the first map that disagrees with taken
RECURSIVE setPortAllocationFrom(_, _, _, _)
setPortAllocationFrom(port, allocations, taken, n) ==
    IF n > Len(allocations) THEN allocations
    ELSE IF Lookup(allocations[n], port) # taken
         THEN [allocations EXCEPT ![n] = MapSet(@, port, taken)]
         ELSE setPortAllocationFrom(port, allocations, taken, n + 1)

setPortAllocation(port, allocations, taken) == setPortAllocationFrom(port, allocations, taken, 1)

\* the orders in which ranging over a Go map can yield k of the ports F of node n
OrderedPicks(n, F, k) ==
    { [i \in 1..k |-> [node |-> n, port |-> s[i]]] :
        s \in {t \in [1..k -> F] : \A i, j \in 1..k : i # j => t[i] # t[j]} }

\* a range over the map that does not test taken
FreePorts_Any(np) == DOMAIN np

\* the keys of a node map that "if !taken" lets through, line 126
FreePorts(np) == {p \in DOMAIN np : ~np[p]}

\* the closure findOpenPorts of Allocate: every slice it can return.  The
\* length test sits behind the append, so amount = 0 never returns early.
RECURSIVE findOpenPortsFrom(_, _, _, _)
findOpenPortsFrom(pas, n, acc, amount) ==
    IF n > Len(pas) THEN {acc}
    ELSE LET F == FreePorts(pas[n])
             need == amount - Len(acc)
         IN  IF amount > 0 /\ Cardinality(F) >= need
             THEN {acc \o s : s \in OrderedPicks(n, F, need)}
             ELSE UNION {findOpenPortsFrom(pas, n + 1, acc \o s, amount) :
                           s \in OrderedPicks(n, F, Cardinality(F))}

findOpenPorts(pas, amount) == findOpenPortsFrom(pas, 1, <<>>, amount)

\* the number of dynamic ports among the first i ports of gs
DynamicRank(gs, i) == Cardinality({j \in 1..i : gs.ports[j].policy = Dynamic})

\* the assignment loop without "a.pa[a.port] = true"
AssignPorts_NoMark(pas, gs, allocations) ==
    [pas |-> pas,
     gs |-> [gs EXCEPT !.ports =
                [i \in DOMAIN gs.ports |->
                    IF gs.ports[i].policy = Dynamic
                    THEN [gs.ports[i] EXCEPT !.hostPort = allocations[DynamicRank(gs, i)].port]
                    ELSE gs.ports[i]]]]

\* the assignment loop without the test of PortPolicy: the allocations are
\* written to the first ports, whatever their policy
AssignPorts_AnyPolicy(pas, gs, allocations) ==
    [pas |-> [n \in DOMAIN pas |->
                [p \in DOMAIN pas[n] |->
                    IF \E k \in DOMAIN allocations :
                          allocations[k].node = n /\ allocations[k].port = p
                    THEN TRUE ELSE pas[n][p]]],
     gs |-> [gs EXCEPT !.ports =
                [i \in DOMAIN gs.ports |->
                    IF i <= Len(allocations)
                    THEN [gs.ports[i] EXCEPT !.hostPort = allocations[i].port]
                    ELSE gs.ports[i]]]]

\* an assignment loop that marks the port number taken in every node map
AssignPorts_MarkAllMaps(pas, gs, allocations) ==
    [pas |-> [n \in DOMAIN pas |->
                [p \in DOMAIN pas[n] |->
                    IF \E k \in DOMAIN allocations : allocations[k].port = p
                    THEN TRUE ELSE pas[n][p]]],
     gs |-> [gs EXCEPT !.ports =
                [i \in DOMAIN gs.ports |->
                    IF gs.ports[i].policy = Dynamic
                    THEN [gs.ports[i] EXCEPT !.hostPort = allocations[DynamicRank(gs, i)].port]
                    ELSE gs.ports[i]]]]

\* the assignment loop of allocate, lines 147-155
AssignPorts(pas, gs, allocations) ==
    [pas |-> [n \in DOMAIN pas |->
                [p \in DOMAIN pas[n] |->
                    IF \E k \in DOMAIN allocations :
                          allocations[k].node = n /\ allocations[k].port = p
                    THEN TRUE ELSE pas[n][p]]],
     gs |-> [gs EXCEPT !.ports =
                [i \in DOMAIN gs.ports |->
                    IF gs.ports[i].policy = Dynamic
                    THEN [gs.ports[i] EXCEPT !.hostPort = allocations[DynamicRank(gs, i)].port]
                    ELSE gs.ports[i]]]]

TotalFree(pas) ==
    LET RECURSIVE sum(_)
        sum(n) == IF n > Len(pas) THEN 0 ELSE Cardinality(FreePorts(pas[n])) + sum(n + 1)
    IN  sum(1)

\* allocate recurses without end when no append can make len(allocations)
\* equal amount: an empty window, or amount = 0 while a free port exists
AllocateDiverges(pas, gs) ==
    \/ (minPort > maxPort /\ TotalFree(pas) < CountPorts(gs, Dynamic))
    \/ (CountPorts(gs, Dynamic) = 0 /\ TotalFree(pas) > 0)

\* allocate that gives up when the node maps hold too few free ports
allocate_NoRetry(pas, gs) ==
    LET amount == CountPorts(gs, Dynamic)
        allocations == findOpenPorts(pas, amount)
    IN  IF \E a \in allocations : Len(a) = amount
        THEN {AssignPorts(pas, gs, a) : a \in {b \in allocations : Len(b) = amount}}
        ELSE {[pas |-> pas, gs |-> gs]}

\* the closure allocate of Allocate: the results [pas, gs] it can return
RECURSIVE allocate(_, _)
allocate(pas, gs) ==
    LET amount == CountPorts(gs, Dynamic)
        allocations == findOpenPorts(pas, amount)
    IN  IF \E a \in allocations : Len(a) = amount
        THEN {AssignPorts(pas, gs, a) : a \in {b \in allocations : Len(b) = amount}}
        ELSE allocate(Append(pas, newPortAllocation), gs)

\* the loop of DeAllocate without the test against the window
RECURSIVE freePortsFrom_NoWindow(_, _, _)
freePortsFrom_NoWindow(pas, gs, i) ==
    IF i > Len(gs.ports) THEN pas
    ELSE freePortsFrom_NoWindow(setPortAllocation(gs.ports[i].hostPort, pas, FALSE), gs, i + 1)

\* a loop of DeAllocate that stops after the first port of the GameServer
freePortsFrom_FirstPortOnly(pas, gs, i) ==
    IF gs.ports = <<>> \/ gs.ports[1].hostPort < minPort \/ gs.ports[1].hostPort > maxPort
    THEN pas
    ELSE setPortAllocation(gs.ports[1].hostPort, pas, FALSE)

\* the loop of DeAllocate over gs.Spec.Ports, lines 193-198
RECURSIVE freePortsFrom(_, _, _)
freePortsFrom(pas, gs, i) ==
    IF i > Len(gs.ports) THEN pas
    ELSE IF gs.ports[i].hostPort < minPort \/ gs.ports[i].hostPort > maxPort
         THEN freePortsFrom(pas, gs, i + 1)
         ELSE freePortsFrom(setPortAllocation(gs.ports[i].hostPort, pas, FALSE), gs, i + 1)

\* DeAllocate that skips the registry check
found_Always(registry, u) == TRUE

\* the closure found of DeAllocate, lines 176-183
found(registry, u) == u \in registry

\* a call is [op, uid, found (the UID was registered), appended (node maps added)]
Log(call) ==
    callTrace' = IF callTrace # TraceOverflow /\ Len(callTrace) < TraceLen
                 THEN Append(callTrace, call)
                 ELSE TraceOverflow

\* the GameServers the lister returns
Live == {u \in 1..NumGS : gameservers[u] \notin {NoGameServer, DeletedGameServer}}

(***************************************************************************)
(* syncAll and registerExistingGameServerPorts, lines 218-318              *)
(***************************************************************************)
\* nodePortAllocation: the nodes that get a map (unschedulable ones do not)
SchedulableNodes(ns) == {n \in NodeNames : ns[n] = "schedulable"}

\* the (GameServer, port index) pairs with a dynamic port
DynamicUses(gss, live) ==
    {<<u, i>> \in live \X (1..4) : i \in DOMAIN gss[u].ports /\ gss[u].ports[i].policy = Dynamic}

\* the pairs registered on the map of their node, line 273
OnNode(gss, live, ns, n) ==
    {x \in DynamicUses(gss, live) : gss[x[1]].nodeName = n /\ n \in SchedulableNodes(ns)}

\* nodePortAllocation[n] after the loop over the GameServers
NodeMapOf(gss, live, ns, n) ==
    LET marked == {gss[x[1]].ports[x[2]].hostPort : x \in OnNode(gss, live, ns, n)}
    IN  [p \in DOMAIN newPortAllocation \cup marked |-> p \in marked]

\* nodePortCount[n]
nodePortCount(gss, live, ns, n) == Cardinality(OnNode(gss, live, ns, n))

\* nonReadyNodesPorts that keeps only the GameServers with no node name
NonReadyUses_Unscheduled(gss, live, ns) ==
    {x \in DynamicUses(gss, live) :
        /\ gss[x[1]].nodeName = ""
        /\ gss[x[1]].ports[x[2]].hostPort # 0}

\* nonReadyNodesPorts, as the pairs whose port is appended, line 276
NonReadyUses(gss, live, ns) ==
    {x \in DynamicUses(gss, live) :
        /\ gss[x[1]].nodeName \notin SchedulableNodes(ns)
        /\ gss[x[1]].ports[x[2]].hostPort # 0}

\* the key orders sort.Slice can leave: heaviest node first, ties in any order
SortedKeys(gss, live, ns) ==
    LET K == SchedulableNodes(ns)
    IN  { s \in [1..Cardinality(K) -> K] :
            /\ \A i, j \in DOMAIN s : i # j => s[i] # s[j]
            /\ \A i, j \in DOMAIN s :
                 i < j => nodePortCount(gss, live, ns, s[i]) >= nodePortCount(gss, live, ns, s[j]) }

\* the loop of syncAll over nonReadyNodesPorts, lines 243-245; the order of
\* the list does not change the outcome, one pair is taken at a time
RECURSIVE closeOffPorts(_, _, _)
closeOffPorts(allocations, gss, uses) ==
    IF uses = {} THEN allocations
    ELSE LET x == CHOOSE y \in uses : TRUE
         IN  closeOffPorts(setPortAllocation(gss[x[1]].ports[x[2]].hostPort, allocations, TRUE),
                           gss, uses \ {x})

\* the allocations syncAll can install
syncAllOutcomes(gss, live, ns) ==
    { closeOffPorts([i \in DOMAIN keys |-> NodeMapOf(gss, live, ns, keys[i])],
                    gss, NonReadyUses(gss, live, ns)) :
        keys \in SortedKeys(gss, live, ns) }

\* gsRegistry: every GameServer with a dynamic port
syncAllRegistry(gss, live) == {x[1] : x \in DynamicUses(gss, live)}

(***************************************************************************)
(* Allocator operations                                                    *)
(***************************************************************************)
\* a GameServer is created from a template (a cluster event, no allocator call)
NewGameServer(u, t) ==
    /\ paStatus = "ok"
    /\ gameservers[u] = NoGameServer
    /\ \A v \in 1..(u - 1) : gameservers[v] # NoGameServer
    /\ \A v \in u..NumGS : gameservers[v] = NoGameServer
    /\ gameservers' = [gameservers EXCEPT ![u] = [ports |-> t, nodeName |-> ""]]
    /\ UNCHANGED <<portAllocations, gameServerRegistry, nodes, paStatus, callTrace>>
    /\ UNCHANGED <<reconVars, syncVars, wqVars, extVars>>

\* PortAllocator.Allocate(gs), lines 110-170
Allocate(u) ==
    /\ paStatus = "ok"
    /\ u \in Live
    /\ IF AllocateDiverges(portAllocations, gameservers[u])
       THEN /\ paStatus' = "overflow"
            /\ Log([op |-> "Allocate", uid |-> u, found |-> FALSE, appended |-> 0])
            /\ UNCHANGED <<portAllocations, gameServerRegistry, gameservers>>
       ELSE \E r \in allocate(portAllocations, gameservers[u]) :
            /\ Len(r.pas) <= MaxNodeMaps
            /\ portAllocations' = r.pas
            /\ gameServerRegistry' = gameServerRegistry \cup {u}
            /\ gameservers' = [gameservers EXCEPT ![u] = r.gs]
            /\ Log([op |-> "Allocate", uid |-> u, found |-> u \in gameServerRegistry,
                    appended |-> Len(r.pas) - Len(portAllocations)])
            /\ UNCHANGED paStatus
    /\ UNCHANGED nodes
    /\ UNCHANGED <<reconVars, syncVars, wqVars, extVars>>

\* DeAllocate has two critical sections, lines 173-201: found() runs under
\* the read lock, which is released before the write lock is taken; other
\* calls can run in between.  inFlight holds the calls that are past found().
MaxInFlight == 2     \* DeAllocate calls between the check and the write lock

Slots == 1..MaxInFlight

NoCall == [uid |-> 0, gs |-> NoGameServer, op |-> "-"]

ConcIdle == inFlight = [k \in Slots |-> NoCall]

\* the slot a call that passed found() takes
FreeSlot(k) == inFlight[k] = NoCall /\ \A j \in 1..(k - 1) : inFlight[j] # NoCall

\* DeAllocate up to the return of found(), lines 176-189: an unregistered
\* GameServer is ignored, a registered one goes on to the write lock
DeAllocateCheck(u) ==
    /\ paStatus = "ok"
    /\ u \in Live
    /\ IF found(gameServerRegistry, u)
       THEN /\ \E k \in Slots :
                 /\ FreeSlot(k)
                 /\ inFlight' = [inFlight EXCEPT
                                    ![k] = [uid |-> u, gs |-> gameservers[u], op |-> "DeAllocate"]]
            /\ UNCHANGED callTrace
       ELSE /\ UNCHANGED inFlight
            /\ Log([op |-> "DeAllocate", uid |-> u, found |-> FALSE, appended |-> 0])
    /\ UNCHANGED <<portAllocations, gameServerRegistry, gameservers, nodes, paStatus>>
    /\ UNCHANGED <<reconVars, syncVars, wqVars, defVars, hcVars, ctlVars, parVars>>

\* DeAllocate from pa.mutex.Lock() to its return, lines 191-200
DeAllocateLocked(k) ==
    /\ paStatus = "ok"
    /\ inFlight[k] # NoCall
    /\ portAllocations' = freePortsFrom(portAllocations, inFlight[k].gs, 1)
    /\ gameServerRegistry' = gameServerRegistry \ {inFlight[k].uid}
    /\ inFlight' = [inFlight EXCEPT ![k] = NoCall]
    /\ Log([op |-> inFlight[k].op, uid |-> inFlight[k].uid, found |-> TRUE, appended |-> 0])
    /\ UNCHANGED <<gameservers, nodes, paStatus>>
    /\ UNCHANGED <<reconVars, syncVars, wqVars, defVars, hcVars, ctlVars, parVars>>

\* PortAllocator.syncAll, lines 218-251
SyncAll ==
    /\ paStatus = "ok"
    /\ \E allocations \in syncAllOutcomes(gameservers, Live, nodes) :
         portAllocations' = allocations
    /\ gameServerRegistry' = syncAllRegistry(gameservers, Live)
    /\ Log([op |-> "syncAll", uid |-> 0, found |-> FALSE, appended |-> 0])
    /\ UNCHANGED <<gameservers, nodes, paStatus>>
    /\ UNCHANGED <<reconVars, syncVars, wqVars, extVars>>

\* PortAllocator.syncDeleteGameServer, lines 205-210: the informer delivers the
\* deletion of a GameServer, which the lister no longer returns.  The object
\* handed over is the GameServer, and DeAllocate is called with it, or a
\* tombstone (cache.DeletedFinalStateUnknown, a deletion the watch missed),
\* for which nothing is done.
SyncDeleteGameServer(u, tombstone) ==
    /\ paStatus = "ok"
    /\ u \in Live
    /\ gameservers' = [gameservers EXCEPT ![u] = DeletedGameServer]
    /\ IF ~tombstone /\ found(gameServerRegistry, u)
       THEN /\ \E k \in Slots :
                 /\ FreeSlot(k)
                 /\ inFlight' = [inFlight EXCEPT
                                    ![k] = [uid |-> u, gs |-> gameservers[u],
                                            op |-> "syncDeleteGameServer"]]
            /\ UNCHANGED callTrace
       ELSE /\ UNCHANGED inFlight
            /\ Log([op |-> IF tombstone THEN "tombstone" ELSE "syncDeleteGameServer",
                    uid |-> u, found |-> FALSE, appended |-> 0])
    /\ UNCHANGED <<portAllocations, gameServerRegistry, nodes, paStatus>>
    /\ UNCHANGED <<reconVars, syncVars, wqVars, defVars, hcVars, ctlVars, parVars>>

\* the allocator as NewPortAllocator leaves it, no GameServer in the cluster
PAIdle ==
    /\ portAllocations = <<>>
    /\ gameServerRegistry = {}
    /\ gameservers = [u \in 1..NumGS |-> NoGameServer]
    /\ nodes = [n \in NodeNames |-> "absent"]
    /\ paStatus = "ok"
    /\ callTrace = <<>>

ReconIdle ==
    /\ list = <<>>
    /\ targetReplicaCount = 0
    /\ maxCreations = maxGameServerCreationsPerBatch
    /\ maxDeletions = maxGameServerDeletionsPerBatch
    /\ maxPending = maxPodPendingCount
    /\ action = NoAction
    /\ applied = NotApplied

(***************************************************************************)
(* WorkerQueue, workerqueue.go.  The queue is client-go's rate limiting    *)
(* work queue: Add drops a key that is dirty and parks one that is being   *)
(* processed until Done; AddRateLimited hands the key to the queue after   *)
(* the delay the rate limiter answers; Get blocks on an empty queue until  *)
(* ShutDown, after which it drains what is left and then reports quit.     *)
(***************************************************************************)
Keys == {"k1", "k2"}

\* an object MetaNamespaceKeyFunc has no key for
BadObject == "bad"

NumWorkers == 2      \* goroutines Run can start
MaxEnqueues == 3     \* calls of Enqueue and EnqueueImmediately in a run
MaxErrors == 1       \* handler invocations that return an error in a run

Workers == 1..NumWorkers

NoKey == "-"

\* Healthy was not called since the queue last changed
NotAsked == "none"

NoHist == [calls |-> 0, delayed |-> 0, stray |-> FALSE, errors |-> 0, invocations |-> 0,
           owed |-> FALSE]

\* NewWorkerQueue, lines 56-67: nothing queued, no worker configured
WQIdle ==
    /\ queue = <<>>
    /\ dirty = {}
    /\ processing = {}
    /\ waitingForAdd = [k \in Keys |-> 0]
    /\ failures = [k \in Keys |-> 0]
    /\ shuttingDown = FALSE
    /\ stopClosed = FALSE
    /\ workers = 0
    /\ running = 0
    /\ runPc = "init"
    /\ goroutines = [w \in Workers |-> [pc |-> "none", key |-> NoKey]]
    /\ hist = [k \in Keys |-> NoHist]
    /\ lastHealthy = NotAsked

EnqueueCalls == hist["k1"].calls + hist["k2"].calls

HandlerErrors == hist["k1"].errors + hist["k2"].errors

\* queue.Add that queues a key that is being processed
queueAdd_NoProcessingCheck(q, d, proc, down, k) ==
    IF down \/ k \in d THEN [queue |-> q, dirty |-> d]
    ELSE [queue |-> Append(q, k), dirty |-> d \cup {k}]

\* queue.Add that appends a key that is already dirty
queueAdd_NoDirtyCheck(q, d, proc, down, k) ==
    IF down THEN [queue |-> q, dirty |-> d]
    ELSE IF k \in proc THEN [queue |-> q, dirty |-> d \cup {k}]
    ELSE [queue |-> Append(q, k), dirty |-> d \cup {k}]

\* queue.Add(key): [queue, dirty] afterwards
queueAdd(q, d, proc, down, k) ==
    IF down \/ k \in d THEN [queue |-> q, dirty |-> d]
    ELSE IF k \in proc THEN [queue |-> q, dirty |-> d \cup {k}]
    ELSE [queue |-> Append(q, k), dirty |-> d \cup {k}]

\* queue.Done(key): the key parked while it was processed is queued
queueDone(q, d, k) == IF k \in d THEN Append(q, k) ELSE q

\* the call an enqueue makes for key k, as the history keeps it
Called(k, rateLimited) ==
    [hist EXCEPT ![k] =
        [@ EXCEPT !.calls = @ + 1,
                  !.delayed = IF rateLimited /\ k \in dirty THEN @ + 1 ELSE @,
                  !.stray = @ \/ (hist[k].calls > 0 /\ k \notin dirty)]]

\* WorkerQueue.Enqueue, lines 72-82
Enqueue(obj) ==
    /\ EnqueueCalls < MaxEnqueues
    /\ IF obj = BadObject
       THEN UNCHANGED <<waitingForAdd, failures, hist>>
       ELSE /\ failures' = [failures EXCEPT ![obj] = @ + 1]
            /\ waitingForAdd' = IF shuttingDown THEN waitingForAdd
                                ELSE [waitingForAdd EXCEPT ![obj] = @ + 1]
            /\ hist' = Called(obj, TRUE)
    /\ UNCHANGED <<queue, dirty, processing, shuttingDown, stopClosed, workers, running,
                   runPc, goroutines>>
    /\ lastHealthy' = NotAsked
    /\ UNCHANGED <<reconVars, paVars, syncVars, extVars>>

\* WorkerQueue.EnqueueImmediately, lines 87-97
EnqueueImmediately(obj) ==
    /\ EnqueueCalls < MaxEnqueues
    /\ IF obj = BadObject
       THEN UNCHANGED <<queue, dirty, hist>>
       ELSE LET r == queueAdd(queue, dirty, processing, shuttingDown, obj)
            IN  /\ queue' = r.queue
                /\ dirty' = r.dirty
                /\ hist' = Called(obj, FALSE)
    /\ UNCHANGED <<processing, waitingForAdd, failures, shuttingDown, stopClosed, workers,
                   running, runPc, goroutines>>
    /\ lastHealthy' = NotAsked
    /\ UNCHANGED <<reconVars, paVars, syncVars, extVars>>

\* the delay of n adds of key k, n >= 1, is over: the delaying queue keeps
\* one entry per key it holds back, and calls Add
DelayedAdd(k, n) ==
    /\ n >= 1
    /\ n <= waitingForAdd[k]
    /\ waitingForAdd' = [waitingForAdd EXCEPT ![k] = @ - n]
    /\ LET r == queueAdd(queue, dirty, processing, shuttingDown, k)
       IN  /\ queue' = r.queue
           /\ dirty' = r.dirty
    /\ UNCHANGED <<processing, failures, shuttingDown, stopClosed, workers, running,
                   runPc, goroutines, hist>>
    /\ lastHealthy' = NotAsked
    /\ UNCHANGED <<reconVars, paVars, syncVars, extVars>>

\* WorkerQueue.Run up to "<-stop", lines 140-147
RunStart(n) ==
    /\ runPc = "init"
    /\ workers' = n
    /\ goroutines' = [w \in Workers |-> IF w <= n THEN [pc |-> "spawned", key |-> NoKey]
                                        ELSE goroutines[w]]
    /\ runPc' = "waiting"
    /\ UNCHANGED <<queue, dirty, processing, waitingForAdd, failures, shuttingDown,
                   stopClosed, running, hist>>
    /\ lastHealthy' = NotAsked
    /\ UNCHANGED <<reconVars, paVars, syncVars, extVars>>

\* the owner of the stop channel closes it
CloseStop ==
    /\ ~stopClosed
    /\ stopClosed' = TRUE
    /\ UNCHANGED <<queue, dirty, processing, waitingForAdd, failures, shuttingDown,
                   workers, running, runPc, goroutines, hist>>
    /\ lastHealthy' = NotAsked
    /\ UNCHANGED <<reconVars, paVars, syncVars, extVars>>

\* Run that returns after "<-stop" without shutting the queue down
RunShutDown_NoShutDown ==
    /\ runPc = "waiting"
    /\ stopClosed
    /\ runPc' = "returned"
    /\ UNCHANGED <<queue, dirty, processing, waitingForAdd, failures, shuttingDown,
                   stopClosed, workers, running, goroutines, hist>>
    /\ lastHealthy' = NotAsked
    /\ UNCHANGED <<reconVars, paVars, syncVars, extVars>>

\* WorkerQueue.Run after "<-stop", lines 147-150
RunShutDown ==
    /\ runPc = "waiting"
    /\ stopClosed
    /\ shuttingDown' = TRUE
    /\ runPc' = "returned"
    /\ UNCHANGED <<queue, dirty, processing, waitingForAdd, failures, stopClosed,
                   workers, running, goroutines, hist>>
    /\ lastHealthy' = NotAsked
    /\ UNCHANGED <<reconVars, paVars, syncVars, extVars>>

\* WorkerQueue.run, line 153: inc
WorkerInc(w) ==
    /\ goroutines[w].pc = "spawned"
    /\ running' = running + 1
    /\ goroutines' = [goroutines EXCEPT ![w].pc = "until"]
    /\ UNCHANGED <<queue, dirty, processing, waitingForAdd, failures, shuttingDown,
                   stopClosed, workers, runPc, hist>>
    /\ lastHealthy' = NotAsked
    /\ UNCHANGED <<reconVars, paVars, syncVars, extVars>>

\* wait.Until(wq.runWorker, workFx, stop), line 155: return once stop is
\* closed, call runWorker otherwise
WorkerUntil(w) ==
    /\ goroutines[w].pc = "until"
    /\ goroutines' = [goroutines EXCEPT ![w].pc = IF stopClosed THEN "dec" ELSE "get"]
    /\ UNCHANGED <<queue, dirty, processing, waitingForAdd, failures, shuttingDown,
                   stopClosed, workers, running, runPc, hist>>
    /\ lastHealthy' = NotAsked
    /\ UNCHANGED <<reconVars, paVars, syncVars, extVars>>

\* processNextWorkItem, lines 110-113: Get hands out the first key, or
\* reports quit once the queue is shut down and empty; it blocks otherwise
WorkerGet(w) ==
    /\ goroutines[w].pc = "get"
    /\ IF queue # <<>>
       THEN /\ queue' = Tail(queue)
            /\ dirty' = dirty \ {Head(queue)}
            /\ processing' = processing \cup {Head(queue)}
            /\ goroutines' = [goroutines EXCEPT ![w] = [pc |-> "handle", key |-> Head(queue)]]
            /\ hist' = [hist EXCEPT ![Head(queue)] =
                            [@ EXCEPT !.invocations = @ + 1, !.owed = FALSE]]
       ELSE /\ shuttingDown
            /\ goroutines' = [goroutines EXCEPT ![w].pc = "until"]
            /\ UNCHANGED <<queue, dirty, processing, hist>>
    /\ UNCHANGED <<waitingForAdd, failures, shuttingDown, stopClosed, workers, running,
                   runPc>>
    /\ lastHealthy' = NotAsked
    /\ UNCHANGED <<reconVars, paVars, syncVars, extVars>>

\* processNextWorkItem that forgets the key after an error as after a
\* success, and does not add it again
WorkerHandle_ForgetOnError(w, err) ==
    /\ goroutines[w].pc = "handle"
    /\ err => HandlerErrors < MaxErrors
    /\ LET k == goroutines[w].key
       IN  /\ failures' = [failures EXCEPT ![k] = 0]
           /\ hist' = IF err THEN [hist EXCEPT ![k] = [@ EXCEPT !.errors = @ + 1, !.owed = TRUE]]
                      ELSE hist
    /\ goroutines' = [goroutines EXCEPT ![w].pc = "done"]
    /\ UNCHANGED <<queue, dirty, processing, waitingForAdd, shuttingDown, stopClosed, workers,
                   running, runPc>>
    /\ lastHealthy' = NotAsked
    /\ UNCHANGED <<reconVars, paVars, syncVars, extVars>>

\* processNextWorkItem, lines 127-135: the handler returns err (TRUE: an
\* error), and AddRateLimited or Forget is called
WorkerHandle(w, err) ==
    /\ goroutines[w].pc = "handle"
    /\ err => HandlerErrors < MaxErrors
    /\ LET k == goroutines[w].key
       IN  /\ IF err
              THEN /\ failures' = [failures EXCEPT ![k] = @ + 1]
                   /\ waitingForAdd' = IF shuttingDown THEN waitingForAdd
                                       ELSE [waitingForAdd EXCEPT ![k] = @ + 1]
                   /\ hist' = [hist EXCEPT ![k] = [@ EXCEPT !.errors = @ + 1, !.owed = TRUE]]
              ELSE /\ failures' = [failures EXCEPT ![k] = 0]
                   /\ UNCHANGED <<waitingForAdd, hist>>
    /\ goroutines' = [goroutines EXCEPT ![w].pc = "done"]
    /\ UNCHANGED <<queue, dirty, processing, shuttingDown, stopClosed, workers, running,
                   runPc>>
    /\ lastHealthy' = NotAsked
    /\ UNCHANGED <<reconVars, paVars, syncVars, extVars>>

\* processNextWorkItem returns, line 114: the deferred queue.Done
WorkerDone(w) ==
    /\ goroutines[w].pc = "done"
    /\ LET k == goroutines[w].key
       IN  /\ processing' = processing \ {k}
           /\ queue' = queueDone(queue, dirty, k)
    /\ goroutines' = [goroutines EXCEPT ![w] = [pc |-> "get", key |-> NoKey]]
    /\ UNCHANGED <<dirty, waitingForAdd, failures, shuttingDown, stopClosed, workers, running,
                   runPc, hist>>
    /\ lastHealthy' = NotAsked
    /\ UNCHANGED <<reconVars, paVars, syncVars, extVars>>

\* WorkerQueue.run, line 154: the deferred dec
WorkerDec(w) ==
    /\ goroutines[w].pc = "dec"
    /\ running' = running - 1
    /\ goroutines' = [goroutines EXCEPT ![w].pc = "exited"]
    /\ UNCHANGED <<queue, dirty, processing, waitingForAdd, failures, shuttingDown,
                   stopClosed, workers, runPc, hist>>
    /\ lastHealthy' = NotAsked
    /\ UNCHANGED <<reconVars, paVars, syncVars, extVars>>

\* Healthy with the test "got == 0"
HealthyResult_AnyRunning(want, got) == IF got = 0 THEN "error" ELSE "nil"

\* the test of Healthy, lines 162-168
HealthyResult(want, got) == IF want # got THEN "error" ELSE "nil"

\* WorkerQueue.Healthy, lines 159-169
Healthy ==
    /\ lastHealthy = NotAsked
    /\ lastHealthy' = HealthyResult(workers, running)
    /\ UNCHANGED <<queue, dirty, processing, waitingForAdd, failures, shuttingDown,
                   stopClosed, workers, running, runPc, goroutines, hist>>
    /\ UNCHANGED <<reconVars, paVars, syncVars, extVars>>

(***************************************************************************)
(* syncGameServerSet, controller.go:234-306, with addMoreGameServers       *)
(* (423-437), deleteGameServers (439-455) and updateStatusIfChanged        *)
(* (521-531).  The pass is the first of a controller, whose state cache is *)
(* empty: the list it reconciles is the lister's.  The lister is the       *)
(* informer's cache, which applies the watch events of the API server one  *)
(* by one; every Create and every Update of the pass is a call of its own, *)
(* and the holder of the allocation mutex runs in between.                 *)
(***************************************************************************)
NoStatus == [replicas |-> -1, readyReplicas |-> -1, allocatedReplicas |-> -1]

\* the controller before a pass, the set without GameServers
SyncIdle ==
    /\ store = <<>>
    /\ listerCache = <<>>
    /\ storeEvents = <<>>
    /\ pc = "idle"
    /\ createChannel = 0
    /\ deleteChannel = {}
    /\ allocationMutex = "free"
    /\ allocating = 0
    /\ gssStatus = NoStatus

\* computeStatus, lines 534-548
computeStatus(l) ==
    [replicas |-> Len(l),
     readyReplicas |-> Cardinality({i \in DOMAIN l : l[i].state = GameServerStateReady}),
     allocatedReplicas |-> Cardinality({i \in DOMAIN l : l[i].state = GameServerStateAllocated})]

\* the state a created GameServer gets from applyStateDefaults
CreatedStates == {GameServerStateCreating, GameServerStatePortAllocation}

\* the GameServers a set holds when the pass starts, as the API server
\* returns them
SyncGameServers ==
    { g \in GameServerKinds :
        /\ g.state \in {GameServerStateCreating, GameServerStateReady,
                        GameServerStateAllocated, GameServerStateUnhealthy}
        /\ g.deletionTimestamp # ZeroTime }

\* gsCopy of deleteGameServers, lines 444-445: a copy of the listed object
ShutdownCopy(l, st, i) == [l[i] EXCEPT !.state = GameServerStateShutdown]

\* the informer applies the oldest watch event to its cache
SyncInformer ==
    /\ storeEvents # <<>>
    /\ LET ev == Head(storeEvents)
       IN  listerCache' = IF ev.index \in DOMAIN listerCache
                          THEN [listerCache EXCEPT ![ev.index] = ev.object]
                          ELSE Append(listerCache, ev.object)
    /\ storeEvents' = Tail(storeEvents)
    /\ UNCHANGED <<store, pc, createChannel, deleteChannel, allocationMutex, allocating,
                   gssStatus>>
    /\ UNCHANGED <<reconVars, paVars, wqVars, extVars>>

\* syncGameServerSet, lines 255-279: the list is read from the lister and the
\* action computed on it
SyncList ==
    /\ pc = "idle"
    /\ list' = listerCache
    /\ \E a \in ReconciliationActions(listerCache, targetReplicaCount,
                                      maxGameServerCreationsPerBatch,
                                      maxGameServerDeletionsPerBatch, maxPodPendingCount) :
         /\ action' = a
         /\ createChannel' = a.toAdd
         /\ deleteChannel' = Range(a.toDelete)
         /\ pc' = IF a.toAdd > 0 THEN "adding" ELSE "deleting"
    /\ UNCHANGED <<targetReplicaCount, maxCreations, maxDeletions, maxPending, applied>>
    /\ UNCHANGED <<store, listerCache, storeEvents, allocationMutex, allocating, gssStatus>>
    /\ UNCHANGED <<paVars, wqVars, extVars>>

\* one callback of addMoreGameServers, lines 426-435: the Create adds the
\* GameServer, or returns an error.  The items are fewer than the
\* maxCreationParalellism workers, so that a worker is left for each of them
\* whatever fails; parallelize returns when the channel is empty.
CreateGameServer ==
    /\ pc = "adding"
    /\ createChannel > 0
    /\ createChannel <= maxCreationParalellism
    /\ \/ \E st \in CreatedStates :
            LET gs == [state |-> st, deletionTimestamp |-> NilTime, created |-> MaxTime]
            IN  /\ store' = Append(store, gs)
                /\ storeEvents' = Append(storeEvents, [index |-> Len(store) + 1, object |-> gs])
       \/ UNCHANGED <<store, storeEvents>>
    /\ createChannel' = createChannel - 1
    /\ pc' = IF createChannel = 1 THEN "deleting" ELSE "adding"
    /\ UNCHANGED <<listerCache, deleteChannel, allocationMutex, allocating, gssStatus>>
    /\ UNCHANGED <<reconVars, paVars, wqVars, extVars>>

\* one callback of deleteGameServers, lines 442-454: the Update writes the
\* copy, or returns an error.  toDelete holds at most
\* maxGameServerDeletionsPerBatch items, one for each of the
\* maxDeletionParallelism workers at most.
DeleteGameServer(i) ==
    /\ pc = "deleting"
    /\ i \in deleteChannel
    /\ Cardinality(deleteChannel) <= maxDeletionParallelism
    /\ \/ /\ store' = [store EXCEPT ![i] = ShutdownCopy(list, store, i)]
          /\ storeEvents' = Append(storeEvents,
                                   [index |-> i, object |-> ShutdownCopy(list, store, i)])
       \/ UNCHANGED <<store, storeEvents>>
    /\ deleteChannel' = deleteChannel \ {i}
    /\ UNCHANGED <<listerCache, pc, createChannel, allocationMutex, allocating, gssStatus>>
    /\ UNCHANGED <<reconVars, paVars, wqVars, extVars>>

\* updateStatusIfChanged, lines 521-531: no call when the status is the one
\* the set carries; otherwise the Update writes it, or fails and the error
\* is returned
StatusOutcomes(current, status) ==
    IF current = status
    THEN {[status |-> current, pc |-> "done"]}
    ELSE {[status |-> status, pc |-> "done"], [status |-> current, pc |-> "error"]}

\* syncGameServerSetStatus, lines 305 and 516-518, once the workers are done
SyncStatus ==
    /\ pc = "deleting"
    /\ deleteChannel = {}
    /\ \E o \in StatusOutcomes(gssStatus, computeStatus(list)) :
         /\ gssStatus' = o.status
         /\ pc' = o.pc
    /\ UNCHANGED <<store, listerCache, storeEvents, createChannel, deleteChannel,
                   allocationMutex, allocating>>
    /\ UNCHANGED <<reconVars, paVars, wqVars, extVars>>

\* the allocator outside this controller takes the shared mutex and picks a
\* Ready GameServer of the set
AllocatorLock(i) ==
    /\ allocationMutex = "free"
    /\ i \in DOMAIN store
    /\ store[i].state = GameServerStateReady
    /\ DeletionTimestampIsZero(store[i])
    /\ allocationMutex' = "allocator"
    /\ allocating' = i
    /\ UNCHANGED <<store, listerCache, storeEvents, pc, createChannel, deleteChannel,
                   gssStatus>>
    /\ UNCHANGED <<reconVars, paVars, wqVars, extVars>>

\* the allocator updates the GameServer it picked to Allocated and releases
\* the mutex
AllocatorUpdate ==
    /\ allocationMutex = "allocator"
    /\ store' = [store EXCEPT ![allocating].state = GameServerStateAllocated]
    /\ storeEvents' = Append(storeEvents,
                             [index |-> allocating,
                              object |-> [store[allocating] EXCEPT
                                             !.state = GameServerStateAllocated]])
    /\ allocationMutex' = "free"
    /\ allocating' = 0
    /\ UNCHANGED <<listerCache, pc, createChannel, deleteChannel, gssStatus>>
    /\ UNCHANGED <<reconVars, paVars, wqVars, extVars>>

(***************************************************************************)
(* GameServer.ApplyDefaults (pkg/apis/stable/v1alpha1/gameserver.go)       *)
(***************************************************************************)
GroupName == "stable.agones.dev"
Packed == "Packed"
Distributed == "Distributed"

\* the defaults applyHealthDefaults writes
DefaultPeriodSeconds == 5
DefaultFailureThreshold == 3
DefaultInitialDelaySeconds == 5

\* bounds of the GameServers the defaults are applied to
MaxPorts == 2
MaxApplications == 2

\* gs.HasPortPolicy(policy)
HasPortPolicy(g, policy) == \E i \in DOMAIN g.ports : g.ports[i].portPolicy = policy

applyContainerDefaults(g) ==
    IF Len(g.containers) = 1 THEN [g EXCEPT !.container = g.containers[1]] ELSE g

applyPortDefaults(g) ==
    [g EXCEPT !.ports =
        [i \in DOMAIN g.ports |->
            [portPolicy |-> IF g.ports[i].portPolicy = "" THEN Dynamic
                            ELSE g.ports[i].portPolicy,
             protocol |-> IF g.ports[i].protocol = "" THEN "UDP"
                          ELSE g.ports[i].protocol]]]

applyStateDefaults(g) ==
    IF g.state = ""
    THEN [g EXCEPT !.state = IF HasPortPolicy(g, Dynamic)
                             THEN GameServerStatePortAllocation
                             ELSE GameServerStateCreating]
    ELSE g

applyHealthDefaults(g) ==
    IF ~g.health.disabled
    THEN [g EXCEPT !.health =
            [disabled |-> FALSE,
             periodSeconds |-> IF g.health.periodSeconds <= 0
                               THEN DefaultPeriodSeconds
                               ELSE g.health.periodSeconds,
             failureThreshold |-> IF g.health.failureThreshold <= 0
                                  THEN DefaultFailureThreshold
                                  ELSE g.health.failureThreshold,
             initialDelaySeconds |-> IF g.health.initialDelaySeconds <= 0
                                     THEN DefaultInitialDelaySeconds
                                     ELSE g.health.initialDelaySeconds]]
    ELSE g

applySchedulingDefaults(g) ==
    IF g.scheduling = "" THEN [g EXCEPT !.scheduling = Packed] ELSE g

\* the result of gs.ApplyDefaults(): the finalizer is appended, then the five
\* helpers run in the order of the code
DefaultsApplied(g) ==
    applySchedulingDefaults(
        applyHealthDefaults(
            applyStateDefaults(
                applyPortDefaults(
                    applyContainerDefaults(
                        [g EXCEPT !.finalizers = Append(g.finalizers, GroupName)])))))

\* the GameServers a client can submit
GameServerPorts ==
    [portPolicy : {"", Static, Dynamic}, protocol : {"", "TCP"}]

HealthSettings ==
    [disabled : BOOLEAN, periodSeconds : {0, 10}, failureThreshold : {0, 7},
     initialDelaySeconds : {-1, 8}]

SubmittedGameServers ==
    [finalizers : {<<>>, <<"example.com/other">>},
     containers : {<<>>, <<"c1">>, <<"c1", "c2">>},
     container : {"", "c2"},
     ports : SeqsUpTo(GameServerPorts, MaxPorts),
     state : {"", GameServerStateCreating, GameServerStateReady},
     health : HealthSettings,
     scheduling : {"", Packed, Distributed}]

NoGameServerYet == [finalizers |-> <<>>]

DefaultsIdle ==
    /\ gameServer = NoGameServerYet
    /\ applications = 0
    /\ afterFirst = NoGameServerYet

ApplyDefaults ==
    /\ gameServer # NoGameServerYet
    /\ applications < MaxApplications
    /\ gameServer' = DefaultsApplied(gameServer)
    /\ applications' = applications + 1
    /\ afterFirst' = IF applications = 0 THEN DefaultsApplied(gameServer) ELSE afterFirst
    /\ UNCHANGED <<reconVars, paVars, syncVars, wqVars, hcVars, ctlVars, moreVars>>

(***************************************************************************)
(* HealthController (pkg/gameservers/health.go), as health_test.go         *)
(* exercises it and, where the tests are silent, as section 4.3 of the     *)
(* specification describes it                                              *)
(***************************************************************************)
\* bound on the pod events of one behaviour
MaxHealthEvents == 3

\* bound on the changes others make to the GameServer in one behaviour
MaxHealthChanges == 1

GameContainer == "container"
NoFreePortsMessage ==
    "0/4 nodes are available: 4 node(s) didn't have free ports for the requestedpod ports."
OtherMessage == "not a real reason"

\* strings.Contains(message, "didn't have free ports") over the messages above
ContainsNoFreePorts(message) == message = NoFreePortsMessage

ContainerStatuses ==
    [name : {GameContainer, "Not a matching name"}, terminated : BOOLEAN]

PodConditions ==
    {[type |-> "PodScheduled", reason |-> "Unschedulable", message |-> NoFreePortsMessage],
     [type |-> "PodScheduled", reason |-> "Unschedulable", message |-> OtherMessage],
     [type |-> "PodScheduled", reason |-> "", message |-> ""],
     [type |-> "Ready", reason |-> "Unschedulable", message |-> NoFreePortsMessage]}

HealthPods ==
    [containerStatuses : SeqsUpTo(ContainerStatuses, 1), conditions : SeqsUpTo(PodConditions, 1)]

failedContainer(pod) ==
    \E i \in DOMAIN pod.containerStatuses :
        /\ pod.containerStatuses[i].name = GameContainer
        /\ pod.containerStatuses[i].terminated

unschedulableWithNoFreePorts(pod) ==
    \E i \in DOMAIN pod.conditions :
        /\ pod.conditions[i].type = "PodScheduled"
        /\ pod.conditions[i].reason = "Unschedulable"
        /\ ContainsNoFreePorts(pod.conditions[i].message)

NoSuchGameServer == "absent"
TerminalStates == {GameServerStateUnhealthy, GameServerStateError, GameServerStateShutdown}

\* the states in which syncGameServer makes a GameServer Unhealthy: Starting
\* and Ready as TestHealthControllerSyncGameServer has them, RequestReady and
\* Allocated as section 4.3 adds them; Scheduled is not among them
ContainerFailureStates_All == GameServerStates \ TerminalStates

ContainerFailureStates ==
    {GameServerStateStarting, GameServerStateRequestReady, GameServerStateReady,
     GameServerStateAllocated}

\* what syncGameServer decides for a GameServer in state st; the pod is not
\* read again (the test calls it with no pod in the cluster)
MarkUnhealthy(st) ==
    /\ st # NoSuchGameServer
    /\ st \notin TerminalStates
    /\ st \in ContainerFailureStates

\* the predicates a pod shows
PodCauses(pod) ==
    {c \in {"failedContainer"} : failedContainer(pod)}
        \cup {c \in {"unschedulableWithNoFreePorts"} : unschedulableWithNoFreePorts(pod)}

NoHealthSync ==
    [state |-> "-", api |-> "-", causes |-> {}, failed |-> FALSE, unschedulable |-> FALSE,
     updated |-> FALSE]

HealthIdle ==
    /\ hcState = NoSuchGameServer
    /\ hcApi = NoSuchGameServer
    /\ hcWatch = <<>>
    /\ hcPod = [containerStatuses |-> <<>>, conditions |-> <<>>]
    /\ hcQueued = FALSE
    /\ hcCauses = {}
    /\ hcFailures = 0
    /\ hcUpdates = 0
    /\ hcEvents = 0
    /\ hcChanges = 0
    /\ hcLast = NoHealthSync

\* a pod event: the informer's copy of the pod changes; the key of the owning
\* GameServer is enqueued when the pod shows a failed game container or is
\* unschedulable for want of free ports (in TestHealthControllerRun the pod
\* without either is followed by no update, each of the two others by one)
PodEvent_AlwaysEnqueue(pod) ==
    /\ hcEvents < MaxHealthEvents
    /\ hcPod' = pod
    /\ hcQueued' = TRUE
    /\ hcCauses' = hcCauses \cup PodCauses(pod)
    /\ hcFailures' = IF PodCauses(pod) # {} THEN hcFailures + 1 ELSE hcFailures
    /\ hcEvents' = hcEvents + 1
    /\ hcLast' = NoHealthSync
    /\ UNCHANGED <<hcState, hcApi, hcWatch, hcUpdates, hcChanges>>
    /\ UNCHANGED <<reconVars, paVars, syncVars, wqVars, defVars, ctlVars, moreVars>>

PodEvent(pod) ==
    /\ hcEvents < MaxHealthEvents
    /\ hcPod' = pod
    /\ hcQueued' = (hcQueued \/ PodCauses(pod) # {})
    /\ hcCauses' = hcCauses \cup PodCauses(pod)
    /\ hcFailures' = IF PodCauses(pod) # {} THEN hcFailures + 1 ELSE hcFailures
    /\ hcEvents' = hcEvents + 1
    /\ hcLast' = NoHealthSync
    /\ UNCHANGED <<hcState, hcApi, hcWatch, hcUpdates, hcChanges>>
    /\ UNCHANGED <<reconVars, paVars, syncVars, wqVars, defVars, ctlVars, moreVars>>

\* another controller or the SDK moves the GameServer: the API server holds
\* the new state and owes the watch an event
GameServerChanges(st) ==
    /\ hcChanges < MaxHealthChanges
    /\ st # hcApi
    /\ hcApi' = st
    /\ hcWatch' = Append(hcWatch, st)
    /\ hcChanges' = hcChanges + 1
    /\ hcLast' = NoHealthSync
    /\ UNCHANGED <<hcState, hcPod, hcQueued, hcCauses, hcFailures, hcUpdates, hcEvents>>
    /\ UNCHANGED <<reconVars, paVars, syncVars, wqVars, defVars, ctlVars, moreVars>>

\* a GameServer event: the watch delivers the oldest change, the lister's copy
\* changes and nothing is enqueued (in TestHealthControllerRun the Ready
\* GameServer that is added is followed by no update)
GameServerEvent ==
    /\ hcWatch # <<>>
    /\ hcState' = Head(hcWatch)
    /\ hcWatch' = Tail(hcWatch)
    /\ UNCHANGED <<hcApi, hcPod, hcQueued, hcCauses, hcFailures, hcUpdates, hcEvents, hcChanges, hcLast>>
    /\ UNCHANGED <<reconVars, paVars, syncVars, wqVars, defVars, ctlVars, moreVars>>

\* hc.syncGameServer(key): the GameServer is read from the lister; the Update
\* writes its copy with state Unhealthy to the API server, and the lister
\* shows it only when the watch has delivered it (in TestHealthControllerRun,
\* whose watch delivers no update, each of the two syncs issues the Update)
HealthSyncGameServer ==
    /\ hcQueued
    /\ hcQueued' = FALSE
    /\ hcCauses' = {}
    /\ hcLast' = [state |-> hcState,
                  api |-> hcApi,
                  causes |-> hcCauses,
                  failed |-> failedContainer(hcPod),
                  unschedulable |-> unschedulableWithNoFreePorts(hcPod),
                  updated |-> MarkUnhealthy(hcState)]
    /\ IF MarkUnhealthy(hcState)
       THEN /\ hcApi' = GameServerStateUnhealthy
            /\ hcWatch' = Append(hcWatch, GameServerStateUnhealthy)
            /\ hcUpdates' = hcUpdates + 1
       ELSE UNCHANGED <<hcApi, hcWatch, hcUpdates>>
    /\ UNCHANGED <<hcState, hcPod, hcFailures, hcEvents, hcChanges>>
    /\ UNCHANGED <<reconVars, paVars, syncVars, wqVars, defVars, ctlVars, moreVars>>

(***************************************************************************)
(* The GameServerSet controller at work: its watches, its queue, one        *)
(* worker running syncGameServerSet, the listers it reads and the state     *)
(* cache (pkg/gameserversets/controller.go; the state cache and the         *)
(* GameServer controller as the specification describes them).  The set     *)
(* exists throughout and its spec.replicas does not change.  Every call of  *)
(* the API server, every read of a lister, every call of the state cache,   *)
(* every queue operation and every callback of an informer is a step of its *)
(* own.                                                                     *)
(***************************************************************************)
\* bounds: the GameServers that ever exist for the set, its replicas, the
\* GameServers it starts with, and the API calls that fail
MaxUid == 2
MaxReplicas == 2
MaxInitial == 1
MaxApiFailures == 1

\* the callbacks of one parallelize call that have made their API call and
\* not yet written to the state cache
MaxCallbacks == 2

SetKey == "default/set"

\* the replicas of a set that one pass cannot fill
BatchReplicas == maxGameServerCreationsPerBatch + 1

\* a UID without a GameServer
Gone == [state |-> "-", deletionTimestamp |-> NilTime, created |-> 0]

\* the GameServer a Create of the set's template returns; the GameServers the
\* controller creates differ by their UID only (one creation time)
CreatedGameServer == [state |-> GameServerStateCreating, deletionTimestamp |-> NilTime, created |-> 1]

\* the object of UID u in objs, a sequence indexed by UID
At(objs, u) == IF u \in DOMAIN objs THEN objs[u] ELSE Gone

Present(objs) == {u \in DOMAIN objs : objs[u] # Gone}

\* objs with the object of UID u replaced; UIDs are handed out in order, so a
\* new one extends the sequence by one
Put(objs, u, obj) == IF u \in DOMAIN objs THEN [objs EXCEPT ![u] = obj] ELSE Append(objs, obj)

\* the orders in which the GameServers S can come out of a map (the store of
\* the informer): all of them
Orders(S) ==
    {s \in [1..Cardinality(S) -> S] : \A i, j \in 1..Cardinality(S) : s[i] = s[j] => i = j}

\* the subsets of S that have k elements
RECURSIVE KSubsets(_, _)
KSubsets(S, k) ==
    IF k = 0 THEN {{}}
    ELSE IF Cardinality(S) < k THEN {}
    ELSE LET x == CHOOSE y \in S : TRUE
         IN  KSubsets(S \ {x}, k) \cup {T \cup {x} : T \in KSubsets(S \ {x}, k - 1)}

IntentCreated == "created"
IntentDeleted == "deleted"

\* the shadow map of the set, UID -> intent, without entries
NoShadow == [u \in {} |-> IntentCreated]

\* created(gs) and deleted(gs) that record nothing
Remember_Nothing(sh, u, intent) == sh

\* stateCache.forGameServerSet(gsSet).created(gs) and .deleted(gs)
Remember(sh, u, intent) == [v \in DOMAIN sh \cup {u} |-> IF v = u THEN intent ELSE sh[v]]

\* the shadow map without the entry of u
Without(sh, u) == [v \in DOMAIN sh \ {u} |-> sh[v]]

\* reconcileWithUpdatedServerList that forgets the created entries
reconcileWithUpdatedServerList_NoMerge(uids, sh) ==
    LET keep == {u \in DOMAIN sh : sh[u] = IntentDeleted /\ u \in uids}
    IN  [uids |-> uids \ keep,
         shadow |-> [u \in keep |-> sh[u]]]

\* stateCache.forGameServerSet(gsSet).reconcileWithUpdatedServerList(list),
\* for the UIDs of list: entries the list agrees with are dropped, created
\* entries the list does not show yet are merged, deleted entries are hidden
reconcileWithUpdatedServerList(uids, sh) ==
    LET keep == {u \in DOMAIN sh : \/ sh[u] = IntentCreated /\ u \notin uids
                                   \/ sh[u] = IntentDeleted /\ u \in uids}
    IN  [uids |-> {u \in uids \cup keep : u \in keep => sh[u] = IntentCreated},
         shadow |-> [u \in keep |-> sh[u]]]

\* the UIDs of a list of GameServers [uid, gs]
ListedUids(listed) == {listed[i].uid : i \in 1..Len(listed)}

\* the API calls of a pass that can fail
ApiCalls == {"list", "create", "delete", "status"}

\* the error syncGameServerSet returns when every API error is returned
syncError_ReturnAll(failed) == failed # {}

\* the error syncGameServerSet returns: the lister's (line 257), or the status
\* update's (line 305); those of addMoreGameServers and deleteGameServers are
\* logged (lines 293-303)
syncError(failed) == failed \cap {"list", "status"} # {}

\* the deferred EnqueueImmediately of a pass that leaves no follow-up
DeferredEnqueue_Never(q, partial, down) == q

\* lines 286-291: the deferred EnqueueImmediately(gsSet) of a partial pass,
\* on the queue [queue, dirty, processing] while the key is processed
DeferredEnqueue(q, partial, down) ==
    IF partial
    THEN LET r == queueAdd(q.queue, q.dirty, q.processing, down, SetKey)
         IN  [q EXCEPT !.queue = r.queue, !.dirty = r.dirty]
    ELSE q

EmptyQueue == [queue |-> <<>>, dirty |-> {}, processing |-> {}]

\* the local variables of syncGameServerSet and of processNextWorkItem before
\* anything is assigned
NoPass == [gsSetStatus |-> NoStatus, list |-> <<>>, status |-> NoStatus, toAdd |-> 0,
           partial |-> FALSE,
           creating |-> 0, createWorkers |-> 0, created |-> 0, inCreate |-> {},
           toDelete |-> {}, deleteWorkers |-> 0, inDelete |-> {},
           failed |-> {}, err |-> FALSE, added |-> FALSE, retried |-> FALSE]

CtlIdle ==
    /\ cluster = <<>>
    /\ gsEvents = <<>>
    /\ lister = <<>>
    /\ gsNotify = <<>>
    /\ shadow = NoShadow
    /\ replicas = 0
    /\ statusApi = NoStatus
    /\ gssEvents = <<>>
    /\ statusLister = NoStatus
    /\ ctlQueue = EmptyQueue
    /\ ctlWaiting = 0
    /\ ctlDown = FALSE
    /\ ctlPc = "get"
    /\ apiFailures = 0
    /\ expiredEarly = FALSE
    /\ pass = NoPass

restVars == <<reconVars, paVars, syncVars, wqVars, defVars, hcVars, moreVars>>

\* EnqueueImmediately(gsSet) from an event handler
CtlEnqueueImmediately ==
    LET r == queueAdd(ctlQueue.queue, ctlQueue.dirty, ctlQueue.processing, ctlDown, SetKey)
    IN  [ctlQueue EXCEPT !.queue = r.queue, !.dirty = r.dirty]

\* the callback the informer owes for a watch event: AddFunc for a GameServer
\* its cache did not hold, DeleteFunc (with the last object it held) for one it
\* loses, UpdateFunc with the new object otherwise
Notification(old, new) ==
    IF old = Gone THEN [type |-> "add", object |-> new, tombstone |-> FALSE]
    ELSE IF new = Gone THEN [type |-> "delete", object |-> old, tombstone |-> FALSE]
    ELSE [type |-> "update", object |-> new, tombstone |-> FALSE]

\* the GameServer informer takes the oldest watch event: its cache, which the
\* lister reads, gets the object, and the callback is handed to the goroutine
\* that runs the handlers.  An informer that missed the deletion and learns of
\* it from a relist hands DeleteFunc a cache.DeletedFinalStateUnknown
\* (tombstone) instead of the GameServer.
GameServerInformer(tombstone) ==
    /\ gsEvents # <<>>
    /\ LET ev == Head(gsEvents)
           n == Notification(At(lister, ev.uid), ev.object)
       IN  /\ tombstone => n.type = "delete"
           /\ lister' = Put(lister, ev.uid, ev.object)
           /\ gsNotify' = Append(gsNotify, [n EXCEPT !.tombstone = tombstone])
    /\ gsEvents' = Tail(gsEvents)
    /\ UNCHANGED <<cluster, shadow, replicas, statusApi, gssEvents, statusLister, ctlQueue,
                   ctlWaiting, ctlDown, ctlPc, apiFailures, expiredEarly, pass>>
    /\ UNCHANGED restVars

\* lines 134-144 and gameServerEventHandler, lines 209-230: AddFunc and
\* DeleteFunc call the handler, UpdateFunc only for a new object without a
\* deletion timestamp; the handler returns when its argument is not a
\* GameServer (lines 210-213: a tombstone), and else finds the owning set in
\* the lister (every GameServer here has the set as its controller, and the
\* set exists)
HandlerEnqueues(n) ==
    /\ n.type = "update" => n.object.deletionTimestamp = NilTime
    /\ ~n.tombstone

\* the oldest callback of the GameServer informer runs
GameServerEventHandler ==
    /\ gsNotify # <<>>
    /\ ctlQueue' = IF HandlerEnqueues(Head(gsNotify)) THEN CtlEnqueueImmediately ELSE ctlQueue
    /\ gsNotify' = Tail(gsNotify)
    /\ UNCHANGED <<cluster, gsEvents, lister, shadow, replicas, statusApi, gssEvents,
                   statusLister, ctlWaiting, ctlDown, ctlPc, apiFailures, expiredEarly, pass>>
    /\ UNCHANGED restVars

\* the GameServerSet informer takes the oldest watch event of the set, a
\* status written by a pass: the lister shows it, and the UpdateFunc of lines
\* 122-128 enqueues nothing, Spec.Replicas being the same
GameServerSetInformer ==
    /\ gssEvents # <<>>
    /\ statusLister' = Head(gssEvents)
    /\ gssEvents' = Tail(gssEvents)
    /\ UNCHANGED <<cluster, gsEvents, lister, gsNotify, shadow, replicas, statusApi, ctlQueue,
                   ctlWaiting, ctlDown, ctlPc, apiFailures, expiredEarly, pass>>
    /\ UNCHANGED restVars

\* the GameServer controller brings a created GameServer up
GameServerStarts(u) ==
    /\ At(cluster, u) # Gone
    /\ cluster[u].state = GameServerStateCreating
    /\ DeletionTimestampIsZero(cluster[u])
    /\ cluster' = [cluster EXCEPT ![u].state = GameServerStateReady]
    /\ gsEvents' = Append(gsEvents, [uid |-> u, object |-> cluster'[u]])
    /\ UNCHANGED <<lister, gsNotify, shadow, replicas, statusApi, gssEvents, statusLister,
                   ctlQueue, ctlWaiting, ctlDown, ctlPc, apiFailures, expiredEarly, pass>>
    /\ UNCHANGED restVars

\* the GameServer controller tears a Shutdown GameServer down: it deletes it
\* (deletion timestamp), then its finalizer goes and the object with it
GameServerTeardown(u) ==
    /\ At(cluster, u) # Gone
    /\ \/ /\ cluster[u].state = GameServerStateShutdown
          /\ DeletionTimestampIsZero(cluster[u])
          /\ cluster' = [cluster EXCEPT ![u].deletionTimestamp = SetTime]
       \/ /\ ~DeletionTimestampIsZero(cluster[u])
          /\ cluster' = [cluster EXCEPT ![u] = Gone]
    /\ gsEvents' = Append(gsEvents, [uid |-> u, object |-> cluster'[u]])
    /\ UNCHANGED <<lister, gsNotify, shadow, replicas, statusApi, gssEvents, statusLister,
                   ctlQueue, ctlWaiting, ctlDown, ctlPc, apiFailures, expiredEarly, pass>>
    /\ UNCHANGED restVars

\* the staleness window of a created entry is over.  (A deleted entry lives
\* until the lister no longer shows the GameServer: its teardown is taken to
\* be quicker than the window.)  The entry goes early when the lister does
\* not show the GameServer yet, or when a pass holds a list, still to be
\* reconciled, that was read before the lister showed it.
ShadowExpire(u) ==
    /\ u \in DOMAIN shadow
    /\ shadow[u] = IntentCreated
    /\ shadow' = Without(shadow, u)
    /\ expiredEarly' = \/ expiredEarly
                       \/ At(lister, u) = Gone
                       \/ ctlPc = "reconcile" /\ u \notin ListedUids(pass.list)
    /\ UNCHANGED <<cluster, gsEvents, lister, gsNotify, replicas, statusApi, gssEvents,
                   statusLister, ctlQueue, ctlWaiting, ctlDown, ctlPc, apiFailures, pass>>
    /\ UNCHANGED restVars

\* the rate limiter's delay of an AddRateLimited is over: queue.Add
CtlDelayedAdd ==
    /\ ctlWaiting > 0
    /\ ctlWaiting' = ctlWaiting - 1
    /\ ctlQueue' = CtlEnqueueImmediately
    /\ UNCHANGED <<cluster, gsEvents, lister, gsNotify, shadow, replicas, statusApi, gssEvents,
                   statusLister, ctlDown, ctlPc, apiFailures, expiredEarly, pass>>
    /\ UNCHANGED restVars

\* the stop channel is closed and Run shuts the queue down
CtlStop ==
    /\ ~ctlDown
    /\ ctlDown' = TRUE
    /\ UNCHANGED <<cluster, gsEvents, lister, gsNotify, shadow, replicas, statusApi, gssEvents,
                   statusLister, ctlQueue, ctlWaiting, ctlPc, apiFailures, expiredEarly, pass>>
    /\ UNCHANGED restVars

\* processNextWorkItem, line 110: queue.Get hands the key to the worker, or
\* tells it to quit
CtlGet ==
    /\ ctlPc = "get"
    /\ IF ctlQueue.queue # <<>>
       THEN /\ ctlQueue' = [queue |-> Tail(ctlQueue.queue),
                            dirty |-> ctlQueue.dirty \ {SetKey},
                            processing |-> ctlQueue.processing \cup {SetKey}]
            /\ ctlPc' = "sync"
       ELSE /\ ctlDown
            /\ ctlPc' = "exited"
            /\ UNCHANGED ctlQueue
    /\ pass' = NoPass
    /\ UNCHANGED <<cluster, gsEvents, lister, gsNotify, shadow, replicas, statusApi, gssEvents,
                   statusLister, ctlWaiting, ctlDown, apiFailures, expiredEarly>>
    /\ UNCHANGED restVars

\* syncGameServerSet, line 246: the set is read from its lister, and
\* gsSet.Status is the status the lister shows at that moment
CtlGetGameServerSet ==
    /\ ctlPc = "sync"
    /\ pass' = [pass EXCEPT !.gsSetStatus = statusLister]
    /\ ctlPc' = "list"
    /\ UNCHANGED <<cluster, gsEvents, lister, gsNotify, shadow, replicas, statusApi, gssEvents,
                   statusLister, ctlQueue, ctlWaiting, ctlDown, apiFailures, expiredEarly>>
    /\ UNCHANGED restVars

\* syncGameServerSet, lines 255-258: the GameServers of the set are listed, in
\* the order the lister returns them, or the listing fails and its error is
\* returned
CtlListGameServers(order, ok) ==
    /\ ctlPc = "list"
    /\ ~ok => apiFailures < MaxApiFailures
    /\ IF ok
       THEN /\ Len(order) = Cardinality(Present(lister))
            /\ Range(order) = Present(lister)
            /\ pass' = [pass EXCEPT
                          !.list = [i \in 1..Len(order) |-> [uid |-> order[i], gs |-> lister[order[i]]]]]
            /\ ctlPc' = "reconcile"
            /\ UNCHANGED apiFailures
       ELSE /\ order = <<>>
            /\ pass' = [pass EXCEPT !.failed = {"list"}, !.err = syncError({"list"})]
            /\ ctlPc' = "result"
            /\ apiFailures' = apiFailures + 1
    /\ UNCHANGED <<cluster, gsEvents, lister, gsNotify, shadow, replicas, statusApi, gssEvents,
                   statusLister, ctlQueue, ctlWaiting, ctlDown, expiredEarly>>
    /\ UNCHANGED restVars

\* syncGameServerSet, lines 260-279: the list read at line 255 is reconciled
\* with the state cache as it is now, and the action and the status are
\* computed on the result: the GameServers of the list that the state cache
\* does not hide, then the created ones it merges, in an order of its map.
\* The merged ones being equal but for their UID, the items of toDelete among
\* them are any of them, as many as the action has.  toDelete keeps the
\* listed objects.
CtlReconcile ==
    /\ ctlPc = "reconcile"
    /\ LET rec == reconcileWithUpdatedServerList(ListedUids(pass.list), shadow)
           Shown(e) == e.uid \in rec.uids
           kept == SelectSeq(pass.list, Shown)
           mergedUids == rec.uids \ ListedUids(pass.list)
           l == [i \in 1..Len(kept) |-> kept[i].gs]
                    \o [i \in 1..Cardinality(mergedUids) |-> CreatedGameServer]
       IN  /\ \E a \in ReconciliationActions(l, replicas, maxGameServerCreationsPerBatch,
                                             maxGameServerDeletionsPerBatch,
                                             maxPodPendingCount) :
                LET J == {i \in Range(a.toDelete) : i > Len(kept)}
                IN  \E D \in KSubsets(mergedUids, Cardinality(J)) :
                      pass' = [pass EXCEPT
                                 !.list = <<>>,
                                 !.status = computeStatus(l),
                                 !.toAdd = a.toAdd,
                                 !.partial = a.partial,
                                 !.creating = a.toAdd,
                                 !.createWorkers = maxCreationParalellism,
                                 !.toDelete = {kept[i] : i \in Range(a.toDelete) \ J}
                                                  \cup {[uid |-> u, gs |-> CreatedGameServer] : u \in D},
                                 !.deleteWorkers = maxDeletionParallelism]
           /\ shadow' = rec.shadow
    /\ ctlPc' = "work"
    /\ UNCHANGED <<cluster, gsEvents, lister, gsNotify, replicas, statusApi, gssEvents,
                   statusLister, ctlQueue, ctlWaiting, ctlDown, apiFailures, expiredEarly>>
    /\ UNCHANGED restVars

\* parallelize has returned from addMoreGameServers: the channel is empty, or
\* every worker has left with an error and the rest is drained, and no
\* callback is running
CreatesOver == (pass.creating = 0 \/ pass.createWorkers = 0) /\ pass.inCreate = {}

\* parallelize has returned from deleteGameServers
DeletesOver == (pass.toDelete = {} \/ pass.deleteWorkers = 0) /\ pass.inDelete = {}

\* one callback of addMoreGameServers, lines 426-431, run by a worker of
\* parallelize that is free: the Create adds the GameServer, or it returns an
\* error and the worker that ran it leaves
CtlCreateGameServer(ok) ==
    /\ ctlPc = "work"
    /\ pass.creating > 0
    /\ Cardinality(pass.inCreate) < Min(pass.createWorkers, MaxCallbacks)
    /\ ~ok => apiFailures < MaxApiFailures
    /\ IF ok
       THEN LET u == Len(cluster) + 1
            IN  /\ cluster' = Append(cluster, CreatedGameServer)
                /\ gsEvents' = Append(gsEvents, [uid |-> u, object |-> CreatedGameServer])
                /\ pass' = [pass EXCEPT !.creating = @ - 1, !.created = @ + 1,
                                        !.inCreate = @ \cup {u}]
                /\ UNCHANGED apiFailures
       ELSE /\ pass' = [pass EXCEPT !.creating = @ - 1, !.createWorkers = @ - 1,
                                    !.failed = @ \cup {"create"}]
            /\ apiFailures' = apiFailures + 1
            /\ UNCHANGED <<cluster, gsEvents>>
    /\ UNCHANGED <<lister, gsNotify, shadow, replicas, statusApi, gssEvents, statusLister,
                   ctlQueue, ctlWaiting, ctlDown, ctlPc, expiredEarly>>
    /\ UNCHANGED restVars

\* the callback of addMoreGameServers that created GameServer u goes on, line
\* 433: the state cache remembers u as created
CtlCreated(u) ==
    /\ ctlPc = "work"
    /\ u \in pass.inCreate
    /\ shadow' = Remember(shadow, u, IntentCreated)
    /\ pass' = [pass EXCEPT !.inCreate = @ \ {u}]
    /\ UNCHANGED <<cluster, gsEvents, lister, gsNotify, replicas, statusApi, gssEvents,
                   statusLister, ctlQueue, ctlWaiting, ctlDown, ctlPc, apiFailures, expiredEarly>>
    /\ UNCHANGED restVars

\* one callback of deleteGameServers, lines 442-449, for the item d of
\* toDelete, run by a worker of parallelize that is free: the Update writes
\* the copy of the listed object with state Shutdown; or it returns an error,
\* as it does for a GameServer that no longer exists
CtlShutdownGameServer(d, ok) ==
    /\ ctlPc = "work"
    /\ CreatesOver
    /\ d \in pass.toDelete
    /\ Cardinality(pass.inDelete) < Min(pass.deleteWorkers, MaxCallbacks)
    /\ ok => At(cluster, d.uid) # Gone
    /\ ~ok => (apiFailures < MaxApiFailures \/ At(cluster, d.uid) = Gone)
    /\ IF ok
       THEN LET gsCopy == [d.gs EXCEPT !.state = GameServerStateShutdown]
            IN  /\ cluster' = [cluster EXCEPT ![d.uid] = gsCopy]
                /\ gsEvents' = Append(gsEvents, [uid |-> d.uid, object |-> gsCopy])
                /\ pass' = [pass EXCEPT !.toDelete = @ \ {d}, !.inDelete = @ \cup {d.uid}]
                /\ UNCHANGED apiFailures
       ELSE /\ pass' = [pass EXCEPT !.toDelete = @ \ {d}, !.deleteWorkers = @ - 1,
                                    !.failed = @ \cup {"delete"}]
            /\ apiFailures' = IF At(cluster, d.uid) = Gone THEN apiFailures ELSE apiFailures + 1
            /\ UNCHANGED <<cluster, gsEvents>>
    /\ UNCHANGED <<lister, gsNotify, shadow, replicas, statusApi, gssEvents, statusLister,
                   ctlQueue, ctlWaiting, ctlDown, ctlPc, expiredEarly>>
    /\ UNCHANGED restVars

\* the callback of deleteGameServers that shut GameServer u down goes on, line
\* 451: the state cache remembers u as deleted
CtlDeleted(u) ==
    /\ ctlPc = "work"
    /\ u \in pass.inDelete
    /\ shadow' = Remember(shadow, u, IntentDeleted)
    /\ pass' = [pass EXCEPT !.inDelete = @ \ {u}]
    /\ UNCHANGED <<cluster, gsEvents, lister, gsNotify, replicas, statusApi, gssEvents,
                   statusLister, ctlQueue, ctlWaiting, ctlDown, ctlPc, apiFailures, expiredEarly>>
    /\ UNCHANGED restVars

\* syncGameServerSetStatus and updateStatusIfChanged, lines 516-531: no call
\* when the computed status is the one gsSet carries; otherwise the Update
\* writes it, or fails.  Its result is what syncGameServerSet returns; a
\* partial pass has its deferred call left to run.
CtlUpdateStatus(ok) ==
    /\ ctlPc = "work"
    /\ CreatesOver
    /\ DeletesOver
    /\ ~ok => (apiFailures < MaxApiFailures /\ pass.gsSetStatus # pass.status)
    /\ IF pass.gsSetStatus = pass.status
       THEN /\ pass' = [pass EXCEPT !.err = syncError(pass.failed)]
            /\ UNCHANGED <<statusApi, gssEvents, apiFailures>>
       ELSE IF ok
       THEN /\ statusApi' = pass.status
            /\ gssEvents' = Append(gssEvents, pass.status)
            /\ pass' = [pass EXCEPT !.err = syncError(pass.failed)]
            /\ UNCHANGED apiFailures
       ELSE /\ pass' = [pass EXCEPT !.failed = @ \cup {"status"},
                                    !.err = syncError(pass.failed \cup {"status"})]
            /\ apiFailures' = apiFailures + 1
            /\ UNCHANGED <<statusApi, gssEvents>>
    /\ ctlPc' = IF pass.partial THEN "deferred" ELSE "result"
    /\ UNCHANGED <<cluster, gsEvents, lister, gsNotify, shadow, replicas, statusLister,
                   ctlQueue, ctlWaiting, ctlDown, expiredEarly>>
    /\ UNCHANGED restVars

\* syncGameServerSet returns: the call deferred at line 290 runs
CtlDeferredEnqueue ==
    /\ ctlPc = "deferred"
    /\ ctlQueue' = DeferredEnqueue(ctlQueue, pass.partial, ctlDown)
    /\ pass' = [pass EXCEPT !.added = pass.partial /\ ~ctlDown]
    /\ ctlPc' = "result"
    /\ UNCHANGED <<cluster, gsEvents, lister, gsNotify, shadow, replicas, statusApi, gssEvents,
                   statusLister, ctlWaiting, ctlDown, apiFailures, expiredEarly>>
    /\ UNCHANGED restVars

\* processNextWorkItem, lines 127-135: AddRateLimited for an error of the
\* handler, which a queue that is shut down drops; Forget otherwise
CtlRequeueOrForget ==
    /\ ctlPc = "result"
    /\ ctlWaiting' = IF pass.err /\ ~ctlDown THEN ctlWaiting + 1 ELSE ctlWaiting
    /\ pass' = [pass EXCEPT !.retried = pass.err]
    /\ ctlPc' = "done"
    /\ UNCHANGED <<cluster, gsEvents, lister, gsNotify, shadow, replicas, statusApi, gssEvents,
                   statusLister, ctlQueue, ctlDown, apiFailures, expiredEarly>>
    /\ UNCHANGED restVars

\* processNextWorkItem, line 114: the deferred queue.Done
CtlDone ==
    /\ ctlPc = "done"
    /\ ctlQueue' = [ctlQueue EXCEPT !.processing = @ \ {SetKey},
                                    !.queue = queueDone(@, ctlQueue.dirty, SetKey)]
    /\ ctlPc' = "get"
    /\ UNCHANGED <<cluster, gsEvents, lister, gsNotify, shadow, replicas, statusApi, gssEvents,
                   statusLister, ctlWaiting, ctlDown, apiFailures, expiredEarly, pass>>
    /\ UNCHANGED restVars

(***************************************************************************)
(* parallelize, controller.go:485-513, fed by the goroutine of             *)
(* newGameServersChannel / gameServerListToChannel (457-481).  The channel *)
(* is unbuffered: a send and the matching receive are one step.  Items are *)
(* numbered in the order they are sent; the error of a callback is named   *)
(* by its item.                                                            *)
(***************************************************************************)
MaxParallelism == 2  \* worker goroutines tried (the controller's 16 and 64 scaled down)
MaxItems == 3        \* items the producer sends

NoError == 0

ParWorkers == 1..parallelism

\* errch := make(chan error, parallelism) with no buffer
ErrchCapacity_Unbuffered(p) == 0

\* errch := make(chan error, parallelism), line 486
ErrchCapacity(p) == p

\* a return that takes the last error of the channel
ParallelizeResult_Last(ch) == IF ch = <<>> THEN NoError ELSE ch[Len(ch)]

\* return <-errch on the closed channel, line 512: the head, nil when empty
ParallelizeResult(ch) == IF ch = <<>> THEN NoError ELSE Head(ch)

ParIdle ==
    /\ parallelism = 0
    /\ parItems = 0
    /\ parSent = 0
    /\ parClosed = FALSE
    /\ parWorkers = <<>>
    /\ parErrch = <<>>
    /\ parMain = "idle"
    /\ parResult = NoError
    /\ parInvoked = <<>>
    /\ parProduced = <<>>
    /\ parDrained = {}

MoreIdle == ConcIdle /\ ParIdle

\* the producer goroutine sends the next item and worker g receives it,
\* lines 462-463 / 475-476 and "for it := range gameServers", line 495
ParHandOver(g) ==
    /\ parWorkers[g].pc = "recv"
    /\ parSent < parItems
    /\ parSent' = parSent + 1
    /\ parWorkers' = [parWorkers EXCEPT ![g] = [pc |-> "work", item |-> parSent + 1]]
    /\ UNCHANGED <<parallelism, parItems, parClosed, parErrch, parMain, parResult,
                   parInvoked, parProduced, parDrained>>
    /\ UNCHANGED <<reconVars, paVars, syncVars, wqVars, defVars, hcVars, ctlVars, concVars>>

\* the producer goroutine leaves its loop: defer close(gameServers)
ParClose ==
    /\ parMain # "idle"
    /\ parSent = parItems
    /\ ~parClosed
    /\ parClosed' = TRUE
    /\ UNCHANGED <<parallelism, parItems, parSent, parWorkers, parErrch, parMain, parResult,
                   parInvoked, parProduced, parDrained>>
    /\ UNCHANGED <<reconVars, paVars, syncVars, wqVars, defVars, hcVars, ctlVars, concVars>>

\* work(it) returns in worker g, lines 496-497
ParWork(g, failed) ==
    /\ parWorkers[g].pc = "work"
    /\ parInvoked' = [parInvoked EXCEPT ![parWorkers[g].item] = @ + 1]
    /\ parProduced' = IF failed THEN Append(parProduced, parWorkers[g].item) ELSE parProduced
    /\ parWorkers' = [parWorkers EXCEPT ![g].pc = IF failed THEN "send" ELSE "recv"]
    /\ UNCHANGED <<parallelism, parItems, parSent, parClosed, parErrch, parMain, parResult,
                   parDrained>>
    /\ UNCHANGED <<reconVars, paVars, syncVars, wqVars, defVars, hcVars, ctlVars, concVars>>

\* errch <- err; break; wg.Done(), lines 498-499: the send needs room in errch
ParSendError(g) ==
    /\ parWorkers[g].pc = "send"
    /\ Len(parErrch) < ErrchCapacity(parallelism)
    /\ parErrch' = Append(parErrch, parWorkers[g].item)
    /\ parWorkers' = [parWorkers EXCEPT ![g].pc = "done"]
    /\ UNCHANGED <<parallelism, parItems, parSent, parClosed, parMain, parResult,
                   parInvoked, parProduced, parDrained>>
    /\ UNCHANGED <<reconVars, paVars, syncVars, wqVars, defVars, hcVars, ctlVars, concVars>>

\* the range of worker g ends on the closed channel; wg.Done()
ParWorkerEnds(g) ==
    /\ parWorkers[g].pc = "recv"
    /\ parClosed
    /\ parWorkers' = [parWorkers EXCEPT ![g].pc = "done"]
    /\ UNCHANGED <<parallelism, parItems, parSent, parClosed, parErrch, parMain, parResult,
                   parInvoked, parProduced, parDrained>>
    /\ UNCHANGED <<reconVars, paVars, syncVars, wqVars, defVars, hcVars, ctlVars, concVars>>

\* wg.Wait() returns and errch is closed, lines 504-505
ParWaitReturns ==
    /\ parMain = "wait"
    /\ \A g \in ParWorkers : parWorkers[g].pc = "done"
    /\ parMain' = "drain"
    /\ UNCHANGED <<parallelism, parItems, parSent, parClosed, parWorkers, parErrch,
                   parResult, parInvoked, parProduced, parDrained>>
    /\ UNCHANGED <<reconVars, paVars, syncVars, wqVars, defVars, hcVars, ctlVars, concVars>>

\* one round of "for range gameServers", lines 507-509: the producer sends
\* the next item and parallelize drops it
ParDrain ==
    /\ parMain = "drain"
    /\ parSent < parItems
    /\ parSent' = parSent + 1
    /\ parDrained' = parDrained \cup {parSent + 1}
    /\ UNCHANGED <<parallelism, parItems, parClosed, parWorkers, parErrch, parMain,
                   parResult, parInvoked, parProduced>>
    /\ UNCHANGED <<reconVars, paVars, syncVars, wqVars, defVars, hcVars, ctlVars, concVars>>

\* the draining loop ends on the closed channel and parallelize returns
\* <-errch, line 512
ParReturn ==
    /\ parMain = "drain"
    /\ parClosed
    /\ parResult' = ParallelizeResult(parErrch)
    /\ parMain' = "returned"
    /\ UNCHANGED <<parallelism, parItems, parSent, parClosed, parWorkers, parErrch,
                   parInvoked, parProduced, parDrained>>
    /\ UNCHANGED <<reconVars, paVars, syncVars, wqVars, defVars, hcVars, ctlVars, concVars>>

ExtIdle == DefaultsIdle /\ HealthIdle /\ CtlIdle /\ MoreIdle

(***************************************************************************)
(* SpecSync: one pass of syncGameServerSet over a bounded set, interleaved *)
(* with the allocator                                                       *)
(***************************************************************************)
InitSync ==
    /\ PAIdle
    /\ ExtIdle
    /\ WQIdle
    /\ list = <<>>
    /\ targetReplicaCount \in 0..MaxTarget
    /\ maxCreations = maxGameServerCreationsPerBatch
    /\ maxDeletions = maxGameServerDeletionsPerBatch
    /\ maxPending = maxPodPendingCount
    /\ action = NoAction
    /\ applied = NotApplied
    /\ store \in SeqsUpTo(SyncGameServers, MaxList)
    /\ listerCache = store
    /\ storeEvents = <<>>
    /\ pc = "idle"
    /\ createChannel = 0
    /\ deleteChannel = {}
    /\ allocationMutex = "free"
    /\ allocating = 0
    /\ gssStatus \in {computeStatus(<<>>), computeStatus(store)}

NextSync ==
    \/ SyncInformer
    \/ SyncList
    \/ CreateGameServer
    \/ \E i \in 1..MaxList : DeleteGameServer(i)
    \/ SyncStatus
    \/ \E i \in 1..MaxList : AllocatorLock(i)
    \/ AllocatorUpdate

SpecSync == InitSync /\ [][NextSync]_vars

(***************************************************************************)
(* SpecAlloc: sequences of Allocate and DeAllocate calls                   *)
(***************************************************************************)
InitAlloc == PAIdle /\ ReconIdle /\ SyncIdle /\ WQIdle /\ ExtIdle

\* one caller: a call starts when the call before it has returned
NoCallInFlight == \A k \in Slots : inFlight[k] = NoCall

NextAlloc ==
    \/ \E u \in 1..NumGS, t \in PortTemplates : NoCallInFlight /\ NewGameServer(u, t)
    \/ \E u \in 1..NumGS : NoCallInFlight /\ Allocate(u)
    \/ \E u \in 1..NumGS : NoCallInFlight /\ DeAllocateCheck(u)
    \/ \E k \in Slots : DeAllocateLocked(k)

SpecAlloc == InitAlloc /\ [][NextAlloc]_vars

\* ---- Allocate and DeAllocate called from several goroutines
\* the GameServers tried carry dynamic ports only, no caller allocates a
\* GameServer that is in the registry, and at most TraceLen + 1 calls are made
ConcTemplates == {t \in PortTemplates : \A i \in DOMAIN t : t[i] = [policy |-> Dynamic, hostPort |-> 0]}

NextAllocConc ==
    /\ callTrace # TraceOverflow
    /\ \/ \E u \in 1..NumGS, t \in ConcTemplates : NewGameServer(u, t)
       \/ \E u \in 1..NumGS : u \notin gameServerRegistry /\ Allocate(u)
       \/ \E u \in 1..NumGS : DeAllocateCheck(u)
       \/ \E k \in Slots : DeAllocateLocked(k)

SpecAllocConc == InitAlloc /\ [][NextAllocConc]_vars

\* ---- one call of parallelize: the goroutines are started with the call
InitPar ==
    /\ PAIdle /\ ReconIdle /\ SyncIdle /\ WQIdle
    /\ DefaultsIdle /\ HealthIdle /\ CtlIdle /\ ConcIdle
    /\ parallelism \in 1..MaxParallelism
    /\ parItems \in 0..MaxItems
    /\ parSent = 0
    /\ parClosed = FALSE
    /\ parWorkers = [g \in 1..parallelism |-> [pc |-> "recv", item |-> 0]]
    /\ parErrch = <<>>
    /\ parMain = "wait"
    /\ parResult = NoError
    /\ parInvoked = [i \in 1..parItems |-> 0]
    /\ parProduced = <<>>
    /\ parDrained = {}

NextPar ==
    \/ \E g \in ParWorkers : ParHandOver(g)
    \/ ParClose
    \/ \E g \in ParWorkers, failed \in BOOLEAN : ParWork(g, failed)
    \/ \E g \in ParWorkers : ParSendError(g)
    \/ \E g \in ParWorkers : ParWorkerEnds(g)
    \/ ParWaitReturns
    \/ ParDrain
    \/ ParReturn

SpecPar == InitPar /\ [][NextPar]_vars

\* every goroutine is scheduled, and a callback returns
FairnessPar ==
    /\ WF_vars(ParClose)
    /\ WF_vars(ParWaitReturns)
    /\ WF_vars(ParDrain)
    /\ WF_vars(ParReturn)
    /\ \A g \in 1..MaxParallelism :
        /\ WF_vars(g \in ParWorkers /\ ParHandOver(g))
        /\ WF_vars(g \in ParWorkers /\ \E failed \in BOOLEAN : ParWork(g, failed))
        /\ WF_vars(g \in ParWorkers /\ ParSendError(g))
        /\ WF_vars(g \in ParWorkers /\ ParWorkerEnds(g))

SpecParFair == SpecPar /\ FairnessPar

\* ---- the worker queue on its own
InitWQ == PAIdle /\ ReconIdle /\ SyncIdle /\ WQIdle /\ ExtIdle

NextWQ ==
    \/ \E obj \in Keys \cup {BadObject} : Enqueue(obj)
    \/ \E obj \in Keys \cup {BadObject} : EnqueueImmediately(obj)
    \/ \E k \in Keys, n \in 1..MaxEnqueues + MaxErrors : DelayedAdd(k, n)
    \/ \E n \in 1..NumWorkers : RunStart(n)
    \/ CloseStop
    \/ RunShutDown
    \/ \E w \in Workers : WorkerInc(w)
    \/ \E w \in Workers : WorkerUntil(w)
    \/ \E w \in Workers : WorkerGet(w)
    \/ \E w \in Workers, err \in BOOLEAN : WorkerHandle(w, err)
    \/ \E w \in Workers : WorkerDone(w)
    \/ \E w \in Workers : WorkerDec(w)
    \/ Healthy

SpecWQ == InitWQ /\ [][NextWQ]_vars

\* the goroutines Run starts are scheduled, a handler returns, and the timer
\* of a key the rate limiter holds back fires
FairnessWQ ==
    /\ WF_vars(RunShutDown)
    /\ \A w \in Workers :
        /\ WF_vars(WorkerInc(w))
        /\ WF_vars(WorkerUntil(w))
        /\ WF_vars(WorkerGet(w))
        /\ WF_vars(\E err \in BOOLEAN : WorkerHandle(w, err))
        /\ WF_vars(WorkerDone(w))
        /\ WF_vars(WorkerDec(w))
    /\ \A k \in Keys : WF_vars(\E n \in 1..MaxEnqueues + MaxErrors : DelayedAdd(k, n))

\* the runs checked for progress make fewer enqueue calls
MaxFairEnqueues == 2

NextWQFair ==
    \/ \E obj \in Keys \cup {BadObject} : EnqueueCalls < MaxFairEnqueues /\ Enqueue(obj)
    \/ \E obj \in Keys \cup {BadObject} :
            EnqueueCalls < MaxFairEnqueues /\ EnqueueImmediately(obj)
    \/ \E k \in Keys, n \in 1..MaxEnqueues + MaxErrors : DelayedAdd(k, n)
    \/ \E n \in 1..NumWorkers : RunStart(n)
    \/ CloseStop
    \/ RunShutDown
    \/ \E w \in Workers : WorkerInc(w)
    \/ \E w \in Workers : WorkerUntil(w)
    \/ \E w \in Workers : WorkerGet(w)
    \/ \E w \in Workers, err \in BOOLEAN : WorkerHandle(w, err)
    \/ \E w \in Workers : WorkerDone(w)
    \/ \E w \in Workers : WorkerDec(w)
    \/ Healthy

SpecWQFair == InitWQ /\ [][NextWQFair]_vars /\ FairnessWQ

(***************************************************************************)
(* SpecPA: the allocator over a cluster whose nodes are schedulable,       *)
(* unschedulable or gone, with syncAll and GameServer deletions            *)
(***************************************************************************)
\* Spec.Ports a GameServer found at start-up can carry: a dynamic port not yet
\* allocated, allocated inside the window, or recorded outside of it
ExistingPorts ==
    { <<[policy |-> Dynamic, hostPort |-> 0]>>,
      <<[policy |-> Dynamic, hostPort |-> minPort]>>,
      <<[policy |-> Dynamic, hostPort |-> OutsidePort]>>,
      <<[policy |-> Dynamic, hostPort |-> minPort], [policy |-> Dynamic, hostPort |-> maxPort]>> }

ExistingGameServers == [ports : ExistingPorts, nodeName : {""} \cup NodeNames]

\* the platform's scheduler never binds two pods with the same host port to
\* one node
NoHostPortClash(gss) ==
    \A u, v \in DOMAIN gss :
        (u # v /\ gss[u].nodeName = gss[v].nodeName /\ gss[u].nodeName \in NodeNames) =>
            \A i \in DOMAIN gss[u].ports, j \in DOMAIN gss[v].ports :
                gss[u].ports[i].hostPort = 0 \/ gss[u].ports[i].hostPort # gss[v].ports[j].hostPort

\* the cluster the controller starts in: its nodes and the GameServers of an
\* earlier run, before PortAllocator.Run
InitPA ==
    /\ ExtIdle
    /\ portAllocations = <<>>
    /\ gameServerRegistry = {}
    /\ gameservers \in [1..NumGS -> {NoGameServer} \cup ExistingGameServers]
    /\ \A u \in 1..NumGS : gameservers[u] = NoGameServer =>
           \A v \in u..NumGS : gameservers[v] = NoGameServer
    /\ NoHostPortClash(gameservers)
    /\ nodes \in NodeConfigs
    /\ paStatus = "ok"
    /\ callTrace = <<>>
    /\ ReconIdle
    /\ SyncIdle
    /\ WQIdle

\* PortAllocator.Run has called syncAll
Started == callTrace # <<>>

\* Spec.Ports of the GameServers created once the controller runs
DynamicTemplates ==
    { <<[policy |-> Dynamic, hostPort |-> 0]>>,
      <<[policy |-> Dynamic, hostPort |-> 0], [policy |-> Dynamic, hostPort |-> 0]>> }

\* the run is followed until callTrace is full, the calls in flight counted in
Running ==
    /\ Started
    /\ callTrace # TraceOverflow
    /\ Len(callTrace) + Cardinality({k \in Slots : inFlight[k] # NoCall}) <= TraceLen

\* Run calls syncAll once, before any controller calls the allocator
NextPA ==
    \/ ~Started /\ SyncAll
    \/ \E u \in 1..NumGS, t \in DynamicTemplates : Running /\ NewGameServer(u, t)
    \/ \E u \in 1..NumGS : Running /\ Allocate(u)
    \/ \E u \in 1..NumGS : Running /\ DeAllocateCheck(u)
    \/ \E u \in 1..NumGS, tombstone \in BOOLEAN : Running /\ SyncDeleteGameServer(u, tombstone)
    \/ \E k \in Slots : DeAllocateLocked(k)

SpecPA == InitPA /\ [][NextPA]_vars

(***************************************************************************)
(* SpecRecon: the function applied to every bounded input, and to the      *)
(* input of the test case CreateWhileDeletionsPending (scenario S5)        *)
(***************************************************************************)
S5List ==
    << [state |-> GameServerStateUnhealthy, deletionTimestamp |-> SetTime, created |-> 1],
       [state |-> GameServerStateUnhealthy, deletionTimestamp |-> SetTime, created |-> 1],
       [state |-> GameServerStateReady, deletionTimestamp |-> NilTime, created |-> 1] >>

S5Target == 4

InitRecon ==
    /\ PAIdle
    /\ ExtIdle
    /\ SyncIdle
    /\ WQIdle
    /\ list \in SeqsUpTo(GameServerKinds, MaxList)
    /\ targetReplicaCount \in (0..MaxTarget) \cup (IF list = S5List THEN {S5Target} ELSE {})
    /\ \E c \in CapChoices :
         /\ maxCreations = c[1]
         /\ maxDeletions = c[2]
         /\ maxPending = c[3]
    /\ action = NoAction
    /\ applied = NotApplied

ComputeReconciliationAction ==
    /\ action = NoAction
    /\ action' \in ReconciliationActions(list, targetReplicaCount, maxCreations, maxDeletions, maxPending)
    /\ UNCHANGED <<list, targetReplicaCount, maxCreations, maxDeletions, maxPending, applied>>
    /\ UNCHANGED <<paVars, syncVars, wqVars, extVars>>

NextRecon == ComputeReconciliationAction

SpecRecon == InitRecon /\ [][NextRecon]_vars

\* syncGameServerSet, lines 281-299, carried through: every GameServer of
\* toAdd is created and every GameServer of toDelete is torn down
ApplyReconciliationAction ==
    /\ action # NoAction
    /\ ~applied.done
    /\ \E st \in CreatedStates : applied' = [done |-> TRUE, list |-> Applied(list, action, st)]
    /\ UNCHANGED <<list, targetReplicaCount, maxCreations, maxDeletions, maxPending, action>>
    /\ UNCHANGED <<paVars, syncVars, wqVars, extVars>>

NextReconApply ==
    \/ ComputeReconciliationAction
    \/ ApplyReconciliationAction

SpecReconApply == InitRecon /\ [][NextReconApply]_vars

(***************************************************************************)
(* SpecDefaults: ApplyDefaults applied repeatedly to a submitted           *)
(* GameServer                                                               *)
(***************************************************************************)
InitDefaults ==
    /\ MoreIdle
    /\ PAIdle
    /\ ReconIdle
    /\ SyncIdle
    /\ WQIdle
    /\ HealthIdle
    /\ CtlIdle
    /\ gameServer \in SubmittedGameServers
    /\ applications = 0
    /\ afterFirst = NoGameServerYet

NextDefaults == ApplyDefaults

SpecDefaults == InitDefaults /\ [][NextDefaults]_vars

(***************************************************************************)
(* SpecHealth: the health controller over one GameServer and its pod       *)
(***************************************************************************)
InitHealth ==
    /\ MoreIdle
    /\ PAIdle
    /\ ReconIdle
    /\ SyncIdle
    /\ WQIdle
    /\ DefaultsIdle
    /\ CtlIdle
    /\ hcApi \in GameServerStates \cup {NoSuchGameServer}
    /\ hcState = hcApi
    /\ hcWatch = <<>>
    /\ hcPod = [containerStatuses |-> <<>>, conditions |-> <<>>]
    /\ hcQueued = FALSE
    /\ hcCauses = {}
    /\ hcFailures = 0
    /\ hcUpdates = 0
    /\ hcEvents = 0
    /\ hcChanges = 0
    /\ hcLast = NoHealthSync

NextHealth ==
    \/ \E pod \in HealthPods : PodEvent(pod)
    \/ \E st \in GameServerStates : GameServerChanges(st)
    \/ GameServerEvent
    \/ HealthSyncGameServer

SpecHealth == InitHealth /\ [][NextHealth]_vars

(***************************************************************************)
(* SpecCtl: the GameServerSet controller over one small set, with the       *)
(* listers lagging behind the API server, API calls that fail and the stop  *)
(* signal.  SpecCtlFair is the controller that is not stopped and whose API *)
(* calls succeed, with the scheduling of the worker, of the informers, of   *)
(* the rate limiter's timer and of the GameServer controller.  SpecCtlBatch *)
(* is the controller over a set that asks for one GameServer more than a    *)
(* pass creates, while the watch of the GameServers delivers nothing.       *)
(* SpecCtlConv is the controller that is not stopped and whose API calls    *)
(* succeed, over either kind of set.                                        *)
(***************************************************************************)
\* the states of the GameServers the set holds when the controller starts; they
\* are older than any it creates
InitialGameServers ==
    {GameServerStateReady, GameServerStateAllocated, GameServerStateUnhealthy}

\* the controller once its caches are synced (Run, lines 155-158): the listers
\* show what the API server holds, the AddFunc of the set has called Enqueue,
\* whose add the rate limiter holds back, and an AddFunc is owed for every
\* GameServer
CtlStarted ==
    /\ gsEvents = <<>>
    /\ lister = cluster
    /\ gsNotify = [u \in DOMAIN cluster |-> Notification(Gone, cluster[u])]
    /\ shadow = NoShadow
    /\ statusApi \in {computeStatus(<<>>), computeStatus(cluster)}
    /\ gssEvents = <<>>
    /\ statusLister = statusApi
    /\ ctlQueue = EmptyQueue
    /\ ctlWaiting = 1
    /\ ctlDown = FALSE
    /\ ctlPc = "get"
    /\ apiFailures = 0
    /\ expiredEarly = FALSE
    /\ pass = NoPass

InitCtl ==
    /\ MoreIdle
    /\ PAIdle
    /\ ReconIdle
    /\ SyncIdle
    /\ WQIdle
    /\ DefaultsIdle
    /\ HealthIdle
    /\ \E n \in 0..MaxInitial :
         cluster \in [1..n -> [state : InitialGameServers, deletionTimestamp : {NilTime},
                               created : {0}]]
    /\ replicas \in 0..MaxReplicas
    /\ CtlStarted

\* the answers of the GameServer lister: the GameServers of its cache in any
\* order, or none when the listing fails
ListAnswers(ok) == IF ok THEN Orders(Present(lister)) ELSE {<<>>}

\* With at most MaxUid GameServers no cap binds and no pass is partial, so
\* that no call is deferred.
NextCtl ==
    \/ \E tombstone \in BOOLEAN : GameServerInformer(tombstone)
    \/ GameServerEventHandler
    \/ GameServerSetInformer
    \/ \E u \in 1..MaxUid : GameServerStarts(u)
    \/ \E u \in 1..MaxUid : GameServerTeardown(u)
    \/ \E u \in 1..MaxUid : ShadowExpire(u)
    \/ CtlDelayedAdd
    \/ CtlStop
    \/ CtlGet
    \/ CtlGetGameServerSet
    \/ \E ok \in BOOLEAN : \E order \in ListAnswers(ok) : CtlListGameServers(order, ok)
    \/ CtlReconcile
    \/ \E ok \in BOOLEAN : (ok => Len(cluster) < MaxUid) /\ CtlCreateGameServer(ok)
    \/ \E u \in pass.inCreate : CtlCreated(u)
    \/ \E d \in pass.toDelete, ok \in BOOLEAN : CtlShutdownGameServer(d, ok)
    \/ \E u \in pass.inDelete : CtlDeleted(u)
    \/ \E ok \in BOOLEAN : CtlUpdateStatus(ok)
    \/ CtlRequeueOrForget
    \/ CtlDone

SpecCtl == InitCtl /\ [][NextCtl]_vars

\* the controller while it is not stopped, the API server answers and the
\* state cache keeps an entry until the lister agrees with it; an Update
\* fails only for a GameServer that is gone
NextCtlSteady ==
    \/ \E tombstone \in BOOLEAN : GameServerInformer(tombstone)
    \/ GameServerEventHandler
    \/ GameServerSetInformer
    \/ \E u \in 1..MaxUid : GameServerStarts(u)
    \/ \E u \in 1..MaxUid : GameServerTeardown(u)
    \/ CtlDelayedAdd
    \/ CtlGet
    \/ CtlGetGameServerSet
    \/ \E order \in ListAnswers(TRUE) : CtlListGameServers(order, TRUE)
    \/ CtlReconcile
    \/ Len(cluster) < MaxUid /\ CtlCreateGameServer(TRUE)
    \/ \E u \in pass.inCreate : CtlCreated(u)
    \/ \E d \in pass.toDelete : CtlShutdownGameServer(d, At(cluster, d.uid) # Gone)
    \/ \E u \in pass.inDelete : CtlDeleted(u)
    \/ CtlUpdateStatus(TRUE)
    \/ CtlRequeueOrForget
    \/ CtlDone

\* the worker goroutine, the informers' goroutines, the limiter's timer and
\* the GameServer controller all get to run; every pass comes to its end (a
\* behaviour in which a Create waits for an identifier beyond MaxUid is none
\* of the program's).  The reconciliation is enabled exactly while the worker
\* is at it (ctlPc = "reconcile"), so that its weak fairness says that the
\* worker does not stay there.
FairnessCtl ==
    /\ []<>(ctlPc = "get")
    /\ WF_vars(\E tombstone \in BOOLEAN : GameServerInformer(tombstone))
    /\ WF_vars(GameServerEventHandler)
    /\ WF_vars(GameServerSetInformer)
    /\ \A u \in 1..MaxUid : WF_vars(GameServerStarts(u))
    /\ \A u \in 1..MaxUid : WF_vars(GameServerTeardown(u))
    /\ WF_vars(CtlDelayedAdd)
    /\ WF_vars(CtlGet)
    /\ WF_vars(CtlGetGameServerSet)
    /\ WF_vars(\E order \in ListAnswers(TRUE) : CtlListGameServers(order, TRUE))
    /\ []<>(ctlPc # "reconcile")
    /\ WF_vars(Len(cluster) < MaxUid /\ CtlCreateGameServer(TRUE))
    /\ WF_vars(\E u \in pass.inCreate : CtlCreated(u))
    /\ WF_vars(\E d \in pass.toDelete : CtlShutdownGameServer(d, At(cluster, d.uid) # Gone))
    /\ WF_vars(\E u \in pass.inDelete : CtlDeleted(u))
    /\ WF_vars(CtlUpdateStatus(TRUE))
    /\ WF_vars(CtlRequeueOrForget)
    /\ WF_vars(CtlDone)

SpecCtlFair == InitCtl /\ [][NextCtlSteady]_vars /\ FairnessCtl

\* a new set of BatchReplicas replicas without GameServers
InitCtlBatch ==
    /\ MoreIdle
    /\ PAIdle
    /\ ReconIdle
    /\ SyncIdle
    /\ WQIdle
    /\ DefaultsIdle
    /\ HealthIdle
    /\ cluster = <<>>
    /\ replicas = BatchReplicas
    /\ CtlStarted

\* the controller of the new set: its API calls succeed, the GameServer
\* controller leaves the created GameServers alone, no watch event of a
\* GameServer arrives, and the stop signal may come at any moment
NextCtlBatch ==
    \/ GameServerSetInformer
    \/ CtlDelayedAdd
    \/ CtlStop
    \/ CtlGet
    \/ CtlGetGameServerSet
    \/ \E order \in ListAnswers(TRUE) : CtlListGameServers(order, TRUE)
    \/ CtlReconcile
    \/ CtlCreateGameServer(TRUE)
    \/ \E u \in pass.inCreate : CtlCreated(u)
    \/ CtlUpdateStatus(TRUE)
    \/ CtlDeferredEnqueue
    \/ CtlRequeueOrForget
    \/ CtlDone

\* the worker, the set's informer and the limiter's timer get to run; the stop
\* signal may never come.  The reconciliation is enabled exactly while the
\* worker is at it (ctlPc = "reconcile"), so that its weak fairness says that
\* the worker does not stay there.
FairnessCtlBatch ==
    /\ WF_vars(GameServerSetInformer)
    /\ WF_vars(CtlDelayedAdd)
    /\ WF_vars(CtlGet)
    /\ WF_vars(CtlGetGameServerSet)
    /\ WF_vars(\E order \in ListAnswers(TRUE) : CtlListGameServers(order, TRUE))
    /\ []<>(ctlPc # "reconcile")
    /\ WF_vars(CtlCreateGameServer(TRUE))
    /\ WF_vars(\E u \in pass.inCreate : CtlCreated(u))
    /\ WF_vars(CtlUpdateStatus(TRUE))
    /\ WF_vars(CtlDeferredEnqueue)
    /\ WF_vars(CtlRequeueOrForget)
    /\ WF_vars(CtlDone)

SpecCtlBatch == InitCtlBatch /\ [][NextCtlBatch]_vars /\ FairnessCtlBatch

\* a small set whose GameServers are kept, replaced or removed, MaxUid
\* identifiers being enough for it, or a new set of BatchReplicas replicas
InitCtlConv ==
    /\ MoreIdle
    /\ PAIdle
    /\ ReconIdle
    /\ SyncIdle
    /\ WQIdle
    /\ DefaultsIdle
    /\ HealthIdle
    /\ \/ /\ \E n \in 0..MaxInitial :
               cluster \in [1..n -> [state : InitialGameServers, deletionTimestamp : {NilTime},
                                     created : {0}]]
          /\ replicas \in 0..MaxReplicas
          /\ Len(cluster) + replicas <= MaxUid
       \/ /\ cluster = <<>>
          /\ replicas = BatchReplicas
    /\ CtlStarted

\* the staleness window of the created entry of u is longer than the lag of
\* the watch: the lister shows u, and so does the list a pass holds
OutlivesLag(u) ==
    /\ At(lister, u) # Gone
    /\ ctlPc = "reconcile" => u \in ListedUids(pass.list)

\* the set is a small one
SmallSet == replicas <= MaxReplicas

\* the GameServers the set can have had by the time it is complete
UidLimit == IF replicas > MaxUid THEN replicas ELSE MaxUid

\* the controller while it is not stopped, the API server answers and the
\* state cache keeps a created entry until the lister shows the GameServer;
\* an Update fails only for a GameServer that is gone.  The GameServers of a small set
\* are watched, started and torn down; those of the large set are left as
\* they are created, and no watch event of theirs arrives.
NextCtlConv ==
    \/ \E tombstone \in BOOLEAN :
          SmallSet /\ GameServerInformer(tombstone)
    \/ GameServerEventHandler
    \/ GameServerSetInformer
    \/ \E u \in 1..MaxUid : SmallSet /\ GameServerStarts(u)
    \/ \E u \in 1..MaxUid : SmallSet /\ GameServerTeardown(u)
    \/ \E u \in 1..MaxUid : OutlivesLag(u) /\ ShadowExpire(u)
    \/ CtlDelayedAdd
    \/ CtlGet
    \/ CtlGetGameServerSet
    \/ \E order \in ListAnswers(TRUE) : CtlListGameServers(order, TRUE)
    \/ CtlReconcile
    \/ Len(cluster) < UidLimit /\ CtlCreateGameServer(TRUE)
    \/ \E u \in pass.inCreate : CtlCreated(u)
    \/ \E d \in pass.toDelete : CtlShutdownGameServer(d, At(cluster, d.uid) # Gone)
    \/ \E u \in pass.inDelete : CtlDeleted(u)
    \/ CtlUpdateStatus(TRUE)
    \/ CtlDeferredEnqueue
    \/ CtlRequeueOrForget
    \/ CtlDone

\* the worker goroutine, the callbacks of parallelize, the informers'
\* goroutines, the limiter's timer and the GameServer controller all get to
\* run; the reconciliation as in FairnessCtl
FairnessCtlConv ==
    /\ WF_vars(\E tombstone \in BOOLEAN :
                  SmallSet /\ GameServerInformer(tombstone))
    /\ WF_vars(GameServerEventHandler)
    /\ WF_vars(GameServerSetInformer)
    /\ \A u \in 1..MaxUid : WF_vars(SmallSet /\ GameServerStarts(u))
    /\ \A u \in 1..MaxUid : WF_vars(SmallSet /\ GameServerTeardown(u))
    /\ WF_vars(CtlDelayedAdd)
    /\ WF_vars(CtlGet)
    /\ WF_vars(CtlGetGameServerSet)
    /\ WF_vars(\E order \in ListAnswers(TRUE) : CtlListGameServers(order, TRUE))
    /\ []<>(ctlPc # "reconcile")
    /\ WF_vars(Len(cluster) < UidLimit /\ CtlCreateGameServer(TRUE))
    /\ WF_vars(\E u \in pass.inCreate : CtlCreated(u))
    /\ WF_vars(\E d \in pass.toDelete : CtlShutdownGameServer(d, At(cluster, d.uid) # Gone))
    /\ WF_vars(\E u \in pass.inDelete : CtlDeleted(u))
    /\ WF_vars(CtlUpdateStatus(TRUE))
    /\ WF_vars(CtlDeferredEnqueue)
    /\ WF_vars(CtlRequeueOrForget)
    /\ WF_vars(CtlDone)

SpecCtlConv == InitCtlConv /\ [][NextCtlConv]_vars /\ FairnessCtlConv

(***************************************************************************)
(* Claims about computeReconciliationAction                                *)
(***************************************************************************)
Computed == action # NoAction

\* C1: computeReconciliationAction never returns in toDelete a GameServer
\* whose state is Allocated and that has no deletion timestamp
\* (DeletionTimestamp == nil, the test of isAllocated), whatever the list, the
\* target and the caps.
C1_AllocatedNeverInToDelete ==
    Computed =>
        \A k \in DOMAIN action.toDelete :
            ~(list[action.toDelete[k]].state = GameServerStateAllocated
              /\ list[action.toDelete[k]].deletionTimestamp = NilTime)

\* Allocated GameServers without a deletion timestamp outnumber the target and
\* another GameServer of the list is returned for deletion
C1_Witness ==
    /\ Computed
    /\ Cardinality({i \in DOMAIN list : /\ list[i].state = GameServerStateAllocated
                                        /\ list[i].deletionTimestamp = NilTime})
          > targetReplicaCount
    /\ Len(action.toDelete) > 0

(***************************************************************************)
(* Claims about syncGameServerSet                                          *)
(***************************************************************************)
\* C2 (as stated): whatever the interleaving with the allocator, no Update of
\* deleteGameServers writes Shutdown onto a GameServer that is Allocated, and
\* not being deleted, at the time of the write.
C2_NoShutdownOverAllocated ==
    [][\A i \in 1..MaxList :
        (DeleteGameServer(i) /\ store' # store) => ~isAllocated(store[i])
      ]_vars

(***************************************************************************)
(* Claims about the port allocator                                         *)
(***************************************************************************)
PortNumbers == Window \cup {0, OutsidePort}

\* the node maps in which port is marked taken
TakenCount(pas, port) == Cardinality({n \in DOMAIN pas : Lookup(pas[n], port)})

\* the taken entries of all node maps
TotalTaken(pas) ==
    LET RECURSIVE sum(_)
        sum(n) == IF n > Len(pas) THEN 0
                  ELSE Cardinality({p \in DOMAIN pas[n] : pas[n][p]}) + sum(n + 1)
    IN  sum(1)

\* the dynamic ports of registered GameServers that carry the number port
Uses(port) ==
    {<<u, i>> \in (gameServerRegistry \cap Live) \X (1..4) :
        /\ i \in DOMAIN gameservers[u].ports
        /\ gameservers[u].ports[i].policy = Dynamic
        /\ gameservers[u].ports[i].hostPort = port}

\* the registered GameServers that hold the number port
Holders(port) == {x[1] : x \in Uses(port)}

\* the allocator's documented limitation (portallocator.go lines 41-42): no
\* static port of a GameServer lies inside the dynamic window
NoStaticInWindow ==
    \A u \in Live : \A i \in DOMAIN gameservers[u].ports :
        gameservers[u].ports[i].policy = Static => gameservers[u].ports[i].hostPort \notin Window

LastCall == callTrace[Len(callTrace)]

HasLastCall == callTrace # <<>> /\ callTrace # TraceOverflow

\* C3 (as stated): no host port number is held by two different registered
\* GameServers, however many node maps exist.
C3_UniqueClusterWide ==
    \A p \in PortNumbers : Cardinality(Holders(p)) <= 1

\* C3: when no static port lies inside the window, a host port number is held
\* by registered GameServers at most once per node map: uniqueness is per node
\* map, not cluster-wide.
C3_UniquePerNodeMap ==
    NoStaticInWindow =>
        \A p \in PortNumbers : Cardinality(Uses(p)) <= Len(portAllocations)

\* two registered GameServers hold the same port number, one per node map
C3_Witness ==
    /\ NoStaticInWindow
    /\ Len(portAllocations) = 2
    /\ \E p \in Window : Cardinality(Holders(p)) = 2 /\ Cardinality(Uses(p)) = 2

\* C4 (as stated): every port in use by a registered GameServer is marked
\* taken in exactly one node map.
C4_TakenInExactlyOneMap ==
    \A p \in PortNumbers : Uses(p) # {} => TakenCount(portAllocations, p) = 1

\* C4: when no static port lies inside the window, every port in use by
\* registered GameServers is marked taken in at least one node map, and in at
\* least as many node maps as there are uses of it.
C4_TakenOncePerUse ==
    NoStaticInWindow =>
        \A p \in PortNumbers :
            Uses(p) # {} =>
                /\ TakenCount(portAllocations, p) >= 1
                /\ TakenCount(portAllocations, p) >= Cardinality(Uses(p))

\* a port number is in use twice and marked taken in two node maps, after a
\* DeAllocate freed another port
C4_Witness ==
    /\ NoStaticInWindow
    /\ HasLastCall /\ LastCall.op = "DeAllocate" /\ LastCall.found
    /\ \E p \in Window : Cardinality(Uses(p)) = 2 /\ TakenCount(portAllocations, p) = 2

\* scenario S6: Run on a cluster with one schedulable node and no GameServer,
\* then Allocate for two new GameServers with two dynamic ports each
S6Done ==
    /\ Cardinality({n \in NodeNames : nodes[n] = "schedulable"}) = 1
    /\ callTrace # TraceOverflow
    /\ Len(callTrace) = 3
    /\ callTrace[1].op = "syncAll"
    /\ callTrace[2] = [op |-> "Allocate", uid |-> 1, found |-> FALSE, appended |-> 0]
    /\ callTrace[3].op = "Allocate" /\ callTrace[3].uid = 2 /\ ~callTrace[3].found
    /\ paStatus = "ok"
    /\ \A u \in {1, 2} :
         /\ Len(gameservers[u].ports) = 2
         /\ \A i \in 1..2 : gameservers[u].ports[i].policy = Dynamic

S6Ports == {gameservers[u].ports[i].hostPort : u \in {1, 2}, i \in {1, 2}}

\* C5 (as stated): in scenario S6 the four host ports handed out lie in the
\* window and are all distinct.
C5_FourDistinctPorts ==
    S6Done => (S6Ports \subseteq Window /\ Cardinality(S6Ports) = 4)

\* C5: in scenario S6 the first GameServer gets two distinct ports of the
\* window, the second call appends exactly one node map and gets two ports of
\* the window, and the four ports occupy four distinct (node map, port)
\* entries; the port numbers themselves repeat, the window holding only three.
C5_FourDistinctEntries ==
    S6Done =>
        /\ S6Ports \subseteq Window
        /\ gameservers[1].ports[1].hostPort # gameservers[1].ports[2].hostPort
        /\ callTrace[3].appended = 1
        /\ Len(portAllocations) = 2
        /\ TotalTaken(portAllocations) = 4
        /\ Cardinality(S6Ports) < 4
        /\ \A p \in Window : TakenCount(portAllocations, p) >= Cardinality(Uses(p))

\* scenario S6 has run and the second GameServer shares a port number with the first
C5_Witness ==
    /\ S6Done
    /\ \E i, j \in {1, 2} : gameservers[1].ports[i].hostPort = gameservers[2].ports[j].hostPort

\* C6: when Allocate returns, every dynamic port of the GameServer has a host
\* port that is marked taken, the GameServer is registered and exactly as many
\* entries were taken as it has dynamic ports; when the node maps held too few
\* free ports (none at all for an empty node list), full-range maps were appended.
C6_AllocateReturnsAllPorts ==
    [][\A u \in 1..NumGS :
        (Allocate(u) /\ paStatus' = "ok") =>
            LET gs == gameservers[u]
                amount == CountPorts(gs, Dynamic)
            IN  /\ Len(gameservers'[u].ports) = Len(gs.ports)
                /\ \A i \in DOMAIN gs.ports :
                     gs.ports[i].policy = Dynamic =>
                        /\ gameservers'[u].ports[i].policy = Dynamic
                        /\ gameservers'[u].ports[i].hostPort # 0
                        /\ TakenCount(portAllocations', gameservers'[u].ports[i].hostPort) >= 1
                /\ u \in gameServerRegistry'
                /\ TotalTaken(portAllocations') = TotalTaken(portAllocations) + amount
                /\ Len(portAllocations') >= Len(portAllocations)
                /\ \A n \in DOMAIN portAllocations' :
                     n > Len(portAllocations) => DOMAIN portAllocations'[n] = Window
                /\ TotalFree(portAllocations) < amount => Len(portAllocations') > Len(portAllocations)
      ]_vars

\* a first Allocate on an allocator with no node map appended one, and a
\* later Allocate that found the maps too full appended a second one
C6_Witness ==
    /\ HasLastCall /\ Len(callTrace) >= 2 /\ paStatus = "ok"
    /\ callTrace[1].op = "Allocate" /\ callTrace[1].appended = 1
    /\ LastCall.op = "Allocate" /\ LastCall.appended = 1
    /\ Len(portAllocations) = 2
    /\ CountPorts(gameservers[LastCall.uid], Dynamic) = 2
    /\ \A i \in DOMAIN gameservers[LastCall.uid].ports :
         gameservers[LastCall.uid].ports[i].hostPort \in Window

\* C7: every host port that Allocate writes into a dynamic port lies in
\* [minPort, maxPort], also after syncAll registered host ports that are 0 or
\* outside the window.
C7_AllocatedPortsInWindow ==
    [][\A u \in 1..NumGS :
        (Allocate(u) /\ paStatus' = "ok") =>
            \A i \in DOMAIN gameservers'[u].ports :
                gameservers'[u].ports[i].policy = Dynamic =>
                    /\ gameservers'[u].ports[i].hostPort >= minPort
                    /\ gameservers'[u].ports[i].hostPort <= maxPort
      ]_vars

\* syncAll put a key outside the window into a node map, its GameServer was
\* released, and a later Allocate returned a port
C7_Witness ==
    /\ HasLastCall /\ LastCall.op = "Allocate" /\ paStatus = "ok"
    /\ \E k \in 1..(Len(callTrace) - 1) :
         callTrace[k].op \in {"DeAllocate", "syncDeleteGameServer"} /\ callTrace[k].found
    /\ \E n \in DOMAIN portAllocations : ~(DOMAIN portAllocations[n] \subseteq Window)
    /\ \E i \in DOMAIN gameservers[LastCall.uid].ports :
         /\ gameservers[LastCall.uid].ports[i].policy = Dynamic
         /\ gameservers[LastCall.uid].ports[i].hostPort \in Window

\* C8: Allocate leaves every static port of the GameServer as it was, and
\* every other GameServer untouched.
C8_StaticPortsUntouched ==
    [][\A u \in 1..NumGS :
        Allocate(u) =>
            /\ \A i \in DOMAIN gameservers[u].ports :
                 gameservers[u].ports[i].policy = Static =>
                    /\ i \in DOMAIN gameservers'[u].ports
                    /\ gameservers'[u].ports[i] = gameservers[u].ports[i]
            /\ \A v \in 1..NumGS : v # u => gameservers'[v] = gameservers[v]
      ]_vars

\* Allocate returned a GameServer whose static port precedes, or follows, a
\* dynamic port that was given a port of the window
C8_Witness ==
    /\ HasLastCall /\ LastCall.op = "Allocate" /\ paStatus = "ok"
    /\ \E i, j \in DOMAIN gameservers[LastCall.uid].ports :
         /\ gameservers[LastCall.uid].ports[i].policy = Static
         /\ gameservers[LastCall.uid].ports[i].hostPort = minPort
         /\ gameservers[LastCall.uid].ports[j].policy = Dynamic
         /\ gameservers[LastCall.uid].ports[j].hostPort \in Window

\* C9: DeAllocate of a GameServer whose UID is not in the registry changes no
\* node map entry and no registry entry.
C9_DeAllocateUnregisteredNoOp ==
    [][\A u \in 1..NumGS :
        (DeAllocateCheck(u) /\ u \notin gameServerRegistry) =>
            /\ portAllocations' = portAllocations
            /\ gameServerRegistry' = gameServerRegistry
            /\ inFlight' = inFlight
      ]_vars

\* DeAllocate was called for an unregistered GameServer that carries a port
\* of the window which is marked taken
C9_Witness ==
    /\ HasLastCall /\ LastCall.op = "DeAllocate" /\ ~LastCall.found
    /\ LastCall.uid \notin gameServerRegistry
    /\ \E i \in DOMAIN gameservers[LastCall.uid].ports :
         /\ gameservers[LastCall.uid].ports[i].hostPort \in Window
         /\ TakenCount(portAllocations, gameservers[LastCall.uid].ports[i].hostPort) >= 1

\* the dynamic ports with number port of the GameServers the lister returns
ListedUses(port) ==
    {<<u, i>> \in Live \X (1..4) :
        /\ i \in DOMAIN gameservers[u].ports
        /\ gameservers[u].ports[i].policy = Dynamic
        /\ gameservers[u].ports[i].hostPort = port}

\* the schedulable nodes on which a listed GameServer holds port
NodesHolding(port) ==
    {n \in NodeNames :
        /\ nodes[n] = "schedulable"
        /\ \E x \in ListedUses(port) : gameservers[x[1]].nodeName = n}

\* the uses of port by GameServers with no node, or on a node that is
\* unschedulable or unknown
OrphanUses(port) ==
    {x \in ListedUses(port) :
        /\ port # 0
        /\ ~(gameservers[x[1]].nodeName \in NodeNames /\ nodes[gameservers[x[1]].nodeName] = "schedulable")}

\* C10 (as stated): after syncAll every host port in use by a listed
\* GameServer with a dynamic port is marked taken in exactly one node map.
C10_SyncAllExactlyOneMap ==
    [][SyncAll =>
        \A p \in PortNumbers \ {0} :
            ListedUses(p) # {} => TakenCount(portAllocations', p) = 1
      ]_vars

\* C10: after syncAll there is one node map per schedulable node; a port number
\* is marked taken in the map of every schedulable node on which a listed
\* GameServer holds it, and once more per use by a GameServer without a
\* schedulable node as long as a node map with the port free is left; with no
\* such map left (no schedulable node at all, in particular) the use is dropped.
C10_SyncAllMarksPerNode ==
    [][SyncAll =>
        /\ Len(portAllocations') = Cardinality({n \in NodeNames : nodes[n] = "schedulable"})
        /\ \A p \in PortNumbers :
             TakenCount(portAllocations', p) =
                Cardinality(NodesHolding(p))
                  + Min(Cardinality(OrphanUses(p)), Len(portAllocations') - Cardinality(NodesHolding(p)))
      ]_vars

\* syncAll ran over two GameServers that carry the same port number, one on a
\* schedulable node and one without a node, and marked it in two node maps
C10_Witness ==
    /\ callTrace = <<[op |-> "syncAll", uid |-> 0, found |-> FALSE, appended |-> 0]>>
    /\ \E p \in Window :
         /\ NodesHolding(p) # {}
         /\ OrphanUses(p) # {}
         /\ TakenCount(portAllocations, p) = 2


(***************************************************************************)
(* Worker queue claims, checked under SpecWQ and SpecWQFair.               *)
(***************************************************************************)
\* every enqueue of k after the first was made while k waited in the queue,
\* and no invocation for k returned an error
OneBurst(k) == hist[k].calls >= 1 /\ ~hist[k].stray /\ hist[k].errors = 0

\* nothing of k is left: not held back, not queued, not being processed
Settled(k) == waitingForAdd[k] = 0 /\ k \notin dirty /\ k \notin processing

\* C11 as stated: a key enqueued several times, by Enqueue or by
\* EnqueueImmediately, while it waits in the queue is handled once for those
\* enqueues.
C11_OncePerBurst ==
    \A k \in Keys : OneBurst(k) => hist[k].invocations <= 1

\* C11, amended: the queue holds a key at most once, so the adds that reach
\* it while the key waits are dropped; the enqueues made while the key waits
\* cost at most one more invocation for each of them that went through
\* Enqueue (whose add is held back and can land after the pick-up), and none
\* for those that went through EnqueueImmediately.
C11_CoalescedWhileWaiting ==
    /\ \A i, j \in 1..Len(queue) : queue[i] = queue[j] => i = j
    /\ \A k \in Keys : OneBurst(k) => hist[k].invocations <= 1 + hist[k].delayed

\* C11 witness: a key enqueued three times in one burst, none of the later
\* ones through Enqueue, was handled once and nothing of it is left
C11_Witness ==
    \E k \in Keys :
        /\ OneBurst(k)
        /\ hist[k].calls = 3
        /\ hist[k].delayed = 0
        /\ hist[k].invocations = 1
        /\ Settled(k)

\* the workers that hold key k: they run the handler for it, or have not yet
\* called Done for it
Handling(k) ==
    {w \in Workers : goroutines[w].pc \in {"handle", "done"} /\ goroutines[w].key = k}

\* C12: no two workers run the handler for the same key at the same time,
\* and a key enqueued while it is being processed is parked (dirty, not in
\* the queue) until the invocation has called Done, so Get cannot hand it out.
C12_OneWorkerPerKey ==
    \A k \in Keys :
        /\ Cardinality(Handling(k)) <= 1
        /\ (k \in processing) = (Handling(k) # {})
        /\ k \in processing => \A i \in 1..Len(queue) : queue[i] # k

\* C12 witness: two workers are started, one runs the handler for a key that
\* was enqueued again meanwhile, the other waits on the empty queue
C12_Witness ==
    \E k \in Keys, w1, w2 \in Workers :
        /\ w1 # w2
        /\ workers = 2
        /\ goroutines[w1] = [pc |-> "handle", key |-> k]
        /\ goroutines[w2].pc = "get"
        /\ k \in dirty
        /\ queue = <<>>

\* the step of worker w is the return of the handler for key k
HandlerReturns(w, k) ==
    /\ goroutines[w] = [pc |-> "handle", key |-> k]
    /\ goroutines'[w].pc # "handle"

\* what the queue does for key k when the handler returns: after an error
\* the limiter counts one more failure and one more add is held back
\* (unless the queue is shut down); after nil the count is 0 and nothing is
\* held back or queued that no enqueue asked for
RequeueOnErrorOnly ==
    \A w \in Workers, k \in Keys :
        HandlerReturns(w, k) =>
            IF hist'[k].errors > hist[k].errors
            THEN /\ failures'[k] = failures[k] + 1
                 /\ waitingForAdd'[k] = waitingForAdd[k] + (IF shuttingDown THEN 0 ELSE 1)
            ELSE /\ failures'[k] = 0
                 /\ waitingForAdd'[k] = waitingForAdd[k]
                 /\ queue' = queue

\* the deferred Done of worker w for key k ends the processing of k and
\* queues k only if an enqueue parked it meanwhile
DoneQueuesParkedOnly ==
    \A w \in Workers, k \in Keys :
        (goroutines[w] = [pc |-> "done", key |-> k] /\ goroutines'[w].pc # "done") =>
            /\ k \notin processing'
            /\ (k \notin dirty => \A i \in 1..Len(queue') : queue'[i] # k)

\* C13 as stated: after the handler returned an error for a key, the handler
\* is eventually invoked for that key again.
C13_ErrorAlwaysRetried ==
    \A k \in Keys : hist[k].owed ~> ~hist[k].owed

\* C13: when the handler returns an error the key is added again
\* rate-limited, and the handler is invoked for it again unless the stop
\* signal is closed first; when it returns nil the key is forgotten and the
\* queue adds nothing on its own.
C13_RetryOnErrorForgetOnNil ==
    /\ [][RequeueOnErrorOnly /\ DoneQueuesParkedOnly]_vars
    /\ \A k \in Keys : hist[k].owed ~> (~hist[k].owed \/ stopClosed)

\* C13 witness: the handler returned an error for a key, the key came back
\* through the rate limiter and was handled again, this time without error,
\* and the limiter has forgotten it
C13_Witness ==
    \E k \in Keys :
        /\ hist[k].errors = 1
        /\ hist[k].calls = 1
        /\ hist[k].invocations = 2
        /\ ~hist[k].owed
        /\ failures[k] = 0
        /\ Settled(k)
        /\ ~stopClosed

\* the worker goroutines that are running: started by Run, past inc and
\* not yet past dec
RunningWorkers ==
    {w \in Workers : goroutines[w].pc \in {"until", "get", "handle", "done", "dec"}}

\* C14: in every state Healthy answers with an error exactly when the
\* number of running worker goroutines differs from the worker count that
\* Run configured (0 before Run).
C14_HealthyIffAllRunning ==
    lastHealthy # NotAsked =>
        ((lastHealthy = "error") <=> (Cardinality(RunningWorkers) # workers))

\* C14 witness: Healthy answered with an error after the stop, when one of
\* the two workers had exited and the other was still in the handler
C14_Witness ==
    /\ lastHealthy = "error"
    /\ workers = 2
    /\ stopClosed
    /\ \E w1, w2 \in Workers : goroutines[w1].pc = "exited" /\ goroutines[w2].pc = "handle"

\* every goroutine Run started has left WorkerQueue.run
AllWorkersExited == \A w \in Workers : goroutines[w].pc \in {"none", "exited"}

\* C15: once the stop signal is closed, a queue that was run is shut down
\* and every worker goroutine exits: the running count is back at 0, no key
\* is left between Get and Done, and no worker is left waiting on the queue.
C15_StopTerminatesWorkers ==
    (stopClosed /\ runPc # "init") ~>
        (shuttingDown /\ AllWorkersExited /\ running = 0 /\ processing = {})

\* C15 witness: two workers were started and have handled keys, the stop
\* signal is closed, the queue is shut down and both workers have exited
C15_Witness ==
    /\ stopClosed
    /\ shuttingDown
    /\ workers = 2
    /\ \A w \in Workers : goroutines[w].pc = "exited"
    /\ running = 0
    /\ processing = {}
    /\ \A k \in Keys : hist[k].invocations >= 1

(***************************************************************************)
(* Further claims about computeReconciliationAction                        *)
(***************************************************************************)
\* the GameServers of the list that carry a deletion timestamp
BeingDeleted == {i \in DOMAIN list : ~DeletionTimestampIsZero(list[i])}

\* C16 as stated: every GameServer that carries a deletion timestamp is
\* included in the up count that is compared against the target, so the up
\* count is at least their number (the target once they reach it).
C16_DeletingCountTowardTarget ==
    Computed => action.up >= Min(Cardinality(BeingDeleted), targetReplicaCount)

\* the caps of the unit test, or the defaults of the controller
TestCaps ==
    /\ maxCreations = maxTestCreationsPerBatch
    /\ maxDeletions = maxTestDeletionsPerBatch
    /\ maxPending = maxTestPendingPerBatch

DefaultCaps ==
    /\ maxCreations = maxGameServerCreationsPerBatch
    /\ maxDeletions = maxGameServerDeletionsPerBatch
    /\ maxPending = maxPodPendingCount

\* C17: scenario S5. With target 4 and the list [Unhealthy being deleted,
\* Unhealthy being deleted, Ready], computeReconciliationAction returns
\* toAdd = 3 and an empty toDelete, under the test caps and the default caps.
C17_S5AddsThree ==
    (Computed /\ list = S5List /\ targetReplicaCount = S5Target /\ (TestCaps \/ DefaultCaps)) =>
        (action.toAdd = 3 /\ action.toDelete = <<>>)

\* C17 witness: the function has returned for scenario S5 under the test caps
C17_Witness ==
    /\ Computed
    /\ list = S5List
    /\ targetReplicaCount = S5Target
    /\ TestCaps
    /\ action.toAdd = 3

\* the deletion candidates were more than maxDeletions
Truncated == Computed /\ Len(action.candidates) > maxDeletions

Kept == Range(action.toDelete)

Dropped == Range(action.candidates) \ Kept

\* C18: when the candidates exceed maxDeletions, toDelete holds exactly
\* maxDeletions of them, each once, and they are the newest: no GameServer
\* kept in toDelete was created before a candidate dropped from it.
C18_TruncationKeepsNewest ==
    Truncated =>
        /\ Len(action.toDelete) = maxDeletions
        /\ Cardinality(Kept) = maxDeletions
        /\ Kept \subseteq Range(action.candidates)
        /\ \A k \in Kept, d \in Dropped : list[k].created >= list[d].created

\* C18 witness: three candidates of two ages, two of them kept
C18_Witness ==
    /\ Truncated
    /\ Len(action.candidates) = 3
    /\ maxDeletions = 2
    /\ \E k \in Kept, d \in Dropped : list[k].created > list[d].created
    /\ \E k \in Kept, d \in Dropped : list[k].created = list[d].created

\* the members of set s created after time t
NewerThan(s, t) == {i \in s : list[i].created > t}

\* C19 as stated: when toDelete is truncated, the items that remain in it
\* are those with the oldest creation timestamps.
C19_RetainedAreOldest ==
    Truncated => \A k \in Kept, d \in Dropped : list[k].created <= list[d].created

\* C19, amended: when toDelete is truncated, the items that remain in it are
\* those with the newest creation timestamps: for every time t, toDelete
\* holds as many of the candidates created after t as fit in maxDeletions.
\* The oldest candidates are the ones left out of toDelete.
C19_RetainedAreNewest ==
    Truncated =>
        \A t \in 0..MaxTime :
            Cardinality(NewerThan(Kept, t))
                = Min(maxDeletions, Cardinality(NewerThan(Range(action.candidates), t)))

\* C19 witness: one of three candidates is kept, and it was created after
\* both of those left out
C19_Witness ==
    /\ Truncated
    /\ Len(action.candidates) = 3
    /\ maxDeletions = 1
    /\ \A k \in Kept, d \in Dropped : list[k].created > list[d].created

(***************************************************************************)
(* Reconciliation monotonicity, checked under SpecReconApply               *)
(***************************************************************************)
\* the up count computeReconciliationAction finds on the list once the
\* action is applied
UpAfter == Classify(applied.list, targetReplicaCount).up

\* how far an up count is from the target
Distance(u) == IF u >= targetReplicaCount THEN u - targetReplicaCount ELSE targetReplicaCount - u

\* the Allocated GameServers of the list, which no action touches
AllocatedCount == Cardinality({i \in DOMAIN list : isAllocated(list[i])})

\* C20 as stated: applying (toAdd, toDelete) brings the up count strictly
\* closer to the target, unless partial = false and up = target.
C20_StrictlyCloser ==
    (applied.done /\ ~(~action.partial /\ action.up = targetReplicaCount)) =>
        Distance(UpAfter) < Distance(action.up)

\* C20, amended: applying (toAdd, toDelete) never takes the up count further
\* from the target nor past it: the up count becomes up + toAdd.  It gets
\* strictly closer exactly when up < target and podPending < maxPending; it
\* stays where it is when up >= target (also when the Allocated GameServers
\* alone exceed the target) and when podPending has reached maxPending.
\* With partial = false it ends at the target, or at the number of Allocated
\* GameServers when that is larger.
C20_NeverFurther ==
    applied.done =>
        /\ UpAfter = action.up + action.toAdd
        /\ Distance(UpAfter) <= Distance(action.up)
        /\ (Distance(UpAfter) < Distance(action.up))
              <=> (action.up < targetReplicaCount /\ action.podPending < maxPending)
        /\ ~action.partial => UpAfter = Max(targetReplicaCount, AllocatedCount)

\* C20 witness: an action is applied to a list that is short of the target
\* while the pods pending have reached maxPending, and the up count stays
C20_Witness ==
    /\ applied.done
    /\ action.up < targetReplicaCount
    /\ action.podPending >= maxPending
    /\ action.partial
    /\ UpAfter = action.up

(***************************************************************************)
(* The creation count and the partial flag, checked under SpecRecon        *)
(***************************************************************************)
\* the GameServers of the list without a deletion timestamp whose pod is
\* not running yet
PodPending ==
    {i \in DOMAIN list :
        /\ DeletionTimestampIsZero(list[i])
        /\ list[i].state \in {GameServerStatePortAllocation, GameServerStateCreating,
                              GameServerStateStarting, GameServerStateScheduled}}

\* C29: toAdd is max(0, target - up) cut down to maxCreations and then to
\* max(0, maxPending - podPending), podPending being the number of
\* GameServers without a deletion timestamp in PortAllocation, Creating,
\* Starting or Scheduled; it is never negative and is 0 when up >= target.
C29_ToAddIsCappedDeficit ==
    Computed =>
        /\ action.podPending = Cardinality(PodPending)
        /\ action.toAdd = Min(Min(Max(0, targetReplicaCount - action.up), maxCreations),
                              Max(0, maxPending - Cardinality(PodPending)))
        /\ action.toAdd >= 0
        /\ action.up >= targetReplicaCount => action.toAdd = 0

\* C29 witness: the list is short of the target and maxCreations would
\* allow the whole deficit, but the pods pending leave room for less
C29_Witness ==
    /\ Computed
    /\ Cardinality(PodPending) > 0
    /\ action.toAdd > 0
    /\ action.toAdd < Min(targetReplicaCount - action.up, maxCreations)
    /\ action.toAdd = maxPending - Cardinality(PodPending)

\* a creation cap cut toAdd below target - up
CreationCapped == action.up < targetReplicaCount /\ action.toAdd < targetReplicaCount - action.up

\* C30: partial is true exactly when a creation cap cut toAdd below
\* target - up or the deletion candidates were more than maxDeletions and
\* were truncated; it is false when no cap binds.
C30_PartialIffCapBinds ==
    Computed => (action.partial <=> (CreationCapped \/ Len(action.candidates) > maxDeletions))

\* C30 witness: toAdd is not capped, the deletion candidates are truncated,
\* and partial is set
C30_Witness ==
    /\ Computed
    /\ ~CreationCapped
    /\ action.toAdd > 0
    /\ Len(action.candidates) > maxDeletions
    /\ action.partial


\* C28 (as stated): ApplyDefaults is idempotent: after a second application the
\* finalizers, container, ports, state, health and scheduling of the GameServer
\* equal what the first application left.
C28_DefaultingIdempotent ==
    applications = 2 =>
        /\ gameServer.finalizers = afterFirst.finalizers
        /\ gameServer.container = afterFirst.container
        /\ gameServer.ports = afterFirst.ports
        /\ gameServer.state = afterFirst.state
        /\ gameServer.health = afterFirst.health
        /\ gameServer.scheduling = afterFirst.scheduling


\* what the last syncGameServer did, when it has just run on a GameServer that
\* exists and is not in a terminal state
SyncedLive ==
    /\ hcLast # NoHealthSync
    /\ hcLast.state # NoSuchGameServer
    /\ hcLast.state \notin TerminalStates

PassEnded == ctlPc = "get" /\ pass # NoPass

\* the worker has the key again
HandlerInvoked == ctlPc = "sync"

\* C21 (as stated): after a pass that computed partial = true the handler is
\* invoked again, whatever else happens.
C21_PartialAlwaysFollowedUp ==
    (PassEnded /\ pass.partial) ~> HandlerInvoked

\* C21 (amended): a pass that computed partial = true adds the key before it
\* returns, without rate limiting: unless the queue was shut down by then, the
\* key is dirty while it is still being processed, it is in the queue when
\* the pass has completed, and the handler is invoked for it again although
\* no watch event of a GameServer arrives.
C21_PartialFollowedUpUnlessShutDown ==
    /\ []((ctlPc \in {"result", "done"} /\ pass.added) =>
            (SetKey \in ctlQueue.dirty /\ SetKey \in ctlQueue.processing))
    /\ [](PassEnded =>
            /\ pass.added => pass.partial
            /\ (pass.partial /\ ~ctlDown) => pass.added
            /\ pass.added => ctlQueue.queue = <<SetKey>>)
    /\ (PassEnded /\ pass.added) ~> HandlerInvoked

\* the pass that created maxGameServerCreationsPerBatch of the BatchReplicas
\* GameServers has just completed; no rate-limited add is pending, the lister
\* has not seen any of them, and the key is back in the queue
C21_Witness ==
    /\ PassEnded
    /\ pass.partial
    /\ pass.added
    /\ pass.created = maxGameServerCreationsPerBatch
    /\ ~pass.retried
    /\ ctlWaiting = 0
    /\ lister = <<>>
    /\ ctlQueue.queue = <<SetKey>>
    /\ ctlQueue.processing = {}


\* the GameServers of the set in the API server, as a list in UID order
ClusterList == SelectSeq(cluster, LAMBDA g : g # Gone)

AllocatedInCluster ==
    Cardinality({u \in Present(cluster) : isAllocated(cluster[u])})

\* computeReconciliationAction has nothing left to do for the GameServers of
\* the set
Converged ==
    \A a \in ReconciliationActions(ClusterList, replicas, maxGameServerCreationsPerBatch,
                                   maxGameServerDeletionsPerBatch, maxPodPendingCount) :
        /\ a.toAdd = 0
        /\ a.toDelete = <<>>
        /\ ~a.partial
        /\ AllocatedInCluster <= replicas => a.up = replicas

StatusRight == statusApi = computeStatus(ClusterList)

\* C23 (as stated): while the controller runs and its API calls succeed, the
\* status it has written ends up equal to the count of the GameServers of the
\* set that exist, with readyReplicas and allocatedReplicas the numbers of
\* those in state Ready and Allocated, and stays so.
C23_StatusEventuallyRight == <>[]StatusRight


\* the step in which processNextWorkItem deals with the result of the handler
ResultHandled == ctlPc = "result" /\ ctlPc' = "done"

\* C24 (as stated): when a create, a Shutdown update or the status update
\* fails during a pass, the key is added again through the rate limiter.
C24_EveryApiErrorRetried ==
    [][(ResultHandled /\ pass.failed \cap {"create", "delete", "status"} # {} /\ ~ctlDown)
          => ctlWaiting' = ctlWaiting + 1]_vars

\* C24 (amended): only the error syncGameServerSet returns - the status
\* update's, or the lister's - puts the key back through the rate limiter.  A
\* failed create or Shutdown update is logged and the pass goes on; without
\* one of the other two the key is forgotten.
C24_OnlyReturnedErrorRetried ==
    [][ResultHandled =>
          /\ (pass.failed \cap {"list", "status"} # {} /\ ~ctlDown)
                 => (ctlWaiting' = ctlWaiting + 1 /\ pass'.retried)
          /\ pass.failed \cap {"list", "status"} = {}
                 => (ctlWaiting' = ctlWaiting /\ ~pass'.retried)]_vars

\* a create failed in a pass: the pass has ended, the key was forgotten and
\* nothing is left that would bring it back
C24_Witness ==
    /\ PassEnded
    /\ pass.failed = {"create"}
    /\ ~pass.retried
    /\ apiFailures = 1
    /\ ctlWaiting = 0
    /\ ctlQueue = EmptyQueue
    /\ ~ctlDown
    /\ gsEvents = <<>>
    /\ gsNotify = <<>>
    /\ Len(ClusterList) < replicas

\* the GameServers of the set in the API server that are neither on their way
\* out (Shutdown, deletion timestamp) nor failed
LiveInCluster ==
    {u \in Present(cluster) :
        /\ DeletionTimestampIsZero(cluster[u])
        /\ cluster[u].state \notin {GameServerStateShutdown, GameServerStateError,
                                    GameServerStateUnhealthy}}

\* the pass has computed its action
PassListed == pass.status # NoStatus

\* C25 (as stated): however far the lister lags, a pass never asks for more
\* GameServers than the live ones in the API server leave missing: with what
\* it asks for there are never more live GameServers than spec.replicas.
C25_NeverRecreates ==
    (PassListed /\ pass.toAdd > 0)
        => Cardinality(LiveInCluster) - pass.created + pass.toAdd <= replicas

\* C25 (amended): as long as no created entry has aged out of the state cache
\* before a list read by a pass showed its GameServer, a pass never asks for
\* more GameServers than the live ones in the API server leave missing,
\* however far the lister lags: with what it asks for there are never more
\* live GameServers than spec.replicas.
C25_NoRecreateUnderLag ==
    (PassListed /\ pass.toAdd > 0 /\ ~expiredEarly)
        => Cardinality(LiveInCluster) - pass.created + pass.toAdd <= replicas

\* a pass ran while the lister did not yet show a GameServer an earlier pass
\* created, and asked for nothing: with the remembered one the set is complete
C25_Witness ==
    /\ PassEnded
    /\ pass.failed = {}
    /\ pass.toAdd = 0
    /\ ~expiredEarly
    /\ replicas > 0
    /\ Cardinality(LiveInCluster) = replicas
    /\ \E u \in DOMAIN shadow :
         shadow[u] = IntentCreated /\ At(lister, u) = Gone /\ u \in LiveInCluster

(***************************************************************************)
(* Failed GameServers and GameServers being deleted, checked under         *)
(* SpecRecon                                                               *)
(***************************************************************************)
\* the GameServers of the list in Error or Unhealthy without a deletion
\* timestamp
Failed ==
    {i \in DOMAIN list :
        /\ DeletionTimestampIsZero(list[i])
        /\ list[i].state \in {GameServerStateError, GameServerStateUnhealthy}}

\* the GameServers of the list that pass 1 counts
AllocatedOnes == {i \in DOMAIN list : isAllocated(list[i])}

\* the GameServers of the list that pass 2 hands to handleGameServerUp
UpCandidates == (DOMAIN list \ BeingDeleted) \ (Failed \cup AllocatedOnes)

\* C31: every GameServer in Error or Unhealthy without a deletion timestamp
\* is a deletion candidate (it is in toDelete unless the candidates were
\* truncated to maxDeletions) and is not counted as up, whatever the target:
\* the up count is made of the allocated GameServers and of as many of the
\* others that are neither failed nor being deleted as the target leaves
\* room for.
C31_FailedAlwaysCandidate ==
    Computed =>
        /\ \A i \in Failed :
             /\ i \in Range(action.candidates)
             /\ Len(action.candidates) <= maxDeletions => i \in Range(action.toDelete)
        /\ Range(action.toDelete) \subseteq Range(action.candidates)
        /\ action.up = Cardinality(AllocatedOnes)
                        + Min(Max(0, targetReplicaCount - Cardinality(AllocatedOnes)),
                              Cardinality(UpCandidates))

\* C31 witness: the list is short of the target, so that a failed GameServer
\* counted as up would have filled a slot; it is deleted and replaced instead
C31_Witness ==
    /\ Computed
    /\ \E i, j \in Failed : list[i].state = GameServerStateError
                            /\ list[j].state = GameServerStateUnhealthy
                            /\ {i, j} \subseteq Range(action.toDelete)
    /\ targetReplicaCount > Len(list)
    /\ action.up < Len(list)
    /\ action.toAdd > 0

\* C32: no GameServer that already carries a deletion timestamp is among the
\* deletion candidates or in toDelete, whatever its state and the target.
C32_DeletingNeverInToDelete ==
    Computed =>
        /\ Range(action.toDelete) \cap BeingDeleted = {}
        /\ Range(action.candidates) \cap BeingDeleted = {}

\* C32 witness: the list holds a GameServer being deleted in Error, one in
\* Unhealthy or Allocated, the target is 0, and toDelete is not empty
C32_Witness ==
    /\ Computed
    /\ targetReplicaCount = 0
    /\ \E i, j \in BeingDeleted :
         /\ list[i].state = GameServerStateError
         /\ list[j].state \in {GameServerStateUnhealthy, GameServerStateAllocated}
    /\ action.toDelete # <<>>

\* C40: when toAdd > 0 every GameServer in toDelete is in Error or
\* Unhealthy; when toDelete holds a GameServer in another state, toAdd = 0.
C40_NeverAddAndRemoveHealthy ==
    Computed =>
        /\ action.toAdd > 0 => Range(action.toDelete) \subseteq Failed
        /\ (Range(action.toDelete) \ Failed # {}) => action.toAdd = 0

\* C40 witness: one result that creates and deletes a failed GameServer
C40_Witness ==
    /\ Computed
    /\ action.toAdd > 0
    /\ action.toDelete # <<>>
    /\ Range(action.toDelete) \subseteq Failed
    /\ \E i \in UpCandidates : list[i].state = GameServerStateReady

(***************************************************************************)
(* DeAllocate port by port, checked under SpecAlloc                        *)
(***************************************************************************)
\* the ports of gs that carry the host port number port
PortsWith(gs, port) == Cardinality({i \in DOMAIN gs.ports : gs.ports[i].hostPort = port})

\* the first k node maps in which port is marked taken
FirstTaken(pas, port, k) ==
    {n \in DOMAIN pas :
        /\ Lookup(pas[n], port)
        /\ Cardinality({m \in 1..(n - 1) : Lookup(pas[m], port)}) < k}

\* C33 as stated: DeAllocate of a registered GameServer frees, for each of
\* its ports whose host port lies inside the window, exactly one taken entry
\* for that port number and removes the UID from the registry; ports outside
\* the window leave every node map unchanged.
C33_FreesExactlyOnePerPort ==
    [][\A k \in Slots :
        (DeAllocateLocked(k) /\ inFlight[k].uid \in gameServerRegistry) =>
            /\ \A p \in Window :
                 TakenCount(portAllocations', p)
                    = TakenCount(portAllocations, p) - PortsWith(inFlight[k].gs, p)
            /\ \A p \in PortNumbers \ Window :
                 TakenCount(portAllocations', p) = TakenCount(portAllocations, p)
            /\ gameServerRegistry' = gameServerRegistry \ {inFlight[k].uid}
      ]_vars

\* C33: DeAllocate of a registered GameServer flips to free, for each of its
\* ports whose host port lies inside the window, the first node map in which
\* that port number is still marked taken, and nothing when no node map has
\* it taken; every other entry of every node map stays as it was, ports
\* outside the window change nothing, and the UID leaves the registry.
C33_FreesFirstTakenPerPort ==
    [][\A k \in Slots :
        (DeAllocateLocked(k) /\ inFlight[k].uid \in gameServerRegistry) =>
            /\ Len(portAllocations') = Len(portAllocations)
            /\ \A n \in DOMAIN portAllocations :
                 /\ DOMAIN portAllocations'[n] = DOMAIN portAllocations[n]
                 /\ \A p \in DOMAIN portAllocations[n] :
                      portAllocations'[n][p] =
                          IF p \in Window
                             /\ n \in FirstTaken(portAllocations, p, PortsWith(inFlight[k].gs, p))
                          THEN FALSE
                          ELSE portAllocations[n][p]
            /\ gameServerRegistry' = gameServerRegistry \ {inFlight[k].uid}
      ]_vars

\* DeAllocate was called for a registered GameServer that holds one port of
\* the window and one port outside it: the port of the window is free again,
\* the GameServer has left the registry, and the other GameServer is still
\* registered with its ports taken
C33_Witness ==
    /\ HasLastCall /\ LastCall.op = "DeAllocate" /\ LastCall.found
    /\ LastCall.uid \notin gameServerRegistry
    /\ LET gs == gameservers[LastCall.uid]
       IN  \E i, j \in DOMAIN gs.ports :
                /\ gs.ports[i].hostPort \in Window
                /\ gs.ports[j].hostPort \notin Window
                /\ TakenCount(portAllocations, gs.ports[i].hostPort) = 0
    /\ \E v \in gameServerRegistry :
         /\ CountPorts(gameservers[v], Dynamic) = 2
         /\ TotalTaken(portAllocations) = 2

(***************************************************************************)
(* The ports of one Allocate call, checked under SpecAlloc                 *)
(***************************************************************************)
\* the indices of the dynamic ports of gs
DynamicPorts(gs) == {i \in DOMAIN gs.ports : gs.ports[i].policy = Dynamic}

\* C35: in one Allocate call for a GameServer with two or more dynamic
\* ports, the host ports written into the GameServer are pairwise distinct
\* port numbers, also when the free ports come from more than one node map.
C35_PortsOfOneCallDistinct ==
    [][\A u \in 1..NumGS :
        (Allocate(u) /\ paStatus' = "ok" /\ CountPorts(gameservers[u], Dynamic) >= 2) =>
            \A i, j \in DynamicPorts(gameservers'[u]) :
                i # j => gameservers'[u].ports[i].hostPort # gameservers'[u].ports[j].hostPort
      ]_vars

(***************************************************************************)
(* Conservation of the taken entries, checked under SpecAlloc              *)
(***************************************************************************)
\* the dynamic ports held by the GameServers in the registry
HeldPorts ==
    {<<u, i>> \in (gameServerRegistry \cap Live) \X (1..4) :
        i \in DOMAIN gameservers[u].ports /\ gameservers[u].ports[i].policy = Dynamic}

\* every port number is marked taken in as many node maps as registered
\* GameServers hold dynamic ports with that number
ConservedPerNumber ==
    \A p \in PortNumbers : TakenCount(portAllocations, p) = Cardinality(Uses(p))

\* the taken entries of all node maps are as many as the dynamic ports held
Conserved == TotalTaken(portAllocations) = Cardinality(HeldPorts)

\* Allocate is called for a GameServer that is in the registry
ReAllocate == \E u \in gameServerRegistry : Allocate(u)

\* the calls made so far are all known and none allocated a registered
\* GameServer
NoReAllocateSoFar ==
    /\ callTrace # TraceOverflow
    /\ \A k \in DOMAIN callTrace : callTrace[k].op = "Allocate" => ~callTrace[k].found

\* C37: when no GameServer is allocated twice without a DeAllocate in
\* between and no static port lies inside the window, the taken entries
\* summed over all node maps are as many as the dynamic ports held by the
\* registered GameServers, port number by port number (so Allocate followed
\* by DeAllocate restores the taken count of every port number): it holds
\* after every sequence of up to TraceLen such calls, and every further call
\* other than a second Allocate of a registered GameServer preserves it.
C37_TakenEntriesConserved ==
    /\ []((NoReAllocateSoFar /\ NoStaticInWindow) => (Conserved /\ ConservedPerNumber))
    /\ [][(NoStaticInWindow' /\ ~ReAllocate /\ Conserved /\ ConservedPerNumber)
            => (Conserved' /\ ConservedPerNumber')]_vars

\* two GameServers were allocated from two node maps and the first was
\* released: the second still holds its two ports, and only they are taken
C37_Witness ==
    /\ NoStaticInWindow
    /\ NoReAllocateSoFar
    /\ Len(callTrace) = 3
    /\ callTrace[1].op = "Allocate" /\ callTrace[2].op = "Allocate"
    /\ callTrace[3].op = "DeAllocate" /\ callTrace[3].found
    /\ callTrace[3].uid = callTrace[1].uid
    /\ Len(portAllocations) = 2
    /\ Cardinality(HeldPorts) = 2
    /\ TotalTaken(portAllocations) = 2
    /\ paStatus = "ok"

(***************************************************************************)
(* Termination of Allocate, checked under SpecAlloc                        *)
(***************************************************************************)
\* C38: with a non-empty window, Allocate returns for every GameServer, and
\* it appends no more node maps than are needed to reach the number of free
\* ports the GameServer asks for.
C38_AllocateTerminates ==
    [][\A u \in 1..NumGS :
        (Allocate(u) /\ minPort <= maxPort) =>
            /\ paStatus' = "ok"
            /\ LET appended == Len(portAllocations') - Len(portAllocations)
               IN  appended > 0 =>
                      TotalFree(portAllocations) + (appended - 1) * Cardinality(Window)
                         < CountPorts(gameservers[u], Dynamic)
      ]_vars

(***************************************************************************)
(* Concurrent DeAllocate calls, checked under SpecAllocConc                *)
(***************************************************************************)
\* every dynamic port held by a registered GameServer is backed by a taken
\* entry of its own
AllUsesCovered ==
    /\ NoStaticInWindow
    /\ \A p \in Window : TakenCount(portAllocations, p) >= Cardinality(Uses(p))

\* the call in slot k takes the write lock right after another DeAllocate
\* call for the same GameServer has released it
SecondOfTwo(k) ==
    /\ inFlight[k] # NoCall
    /\ inFlight[k].uid \notin gameServerRegistry
    /\ HasLastCall
    /\ LastCall = [op |-> "DeAllocate", uid |-> inFlight[k].uid, found |-> TRUE, appended |-> 0]

\* C36: when two DeAllocate calls for the same registered GameServer run
\* concurrently its ports are freed once: the call that takes the write lock
\* second, after the first has freed the ports and removed the GameServer
\* from the registry, does not free a taken entry that belongs to another
\* registered GameServer holding the same port number in another node map.
C36_ConcurrentDeAllocateFreesOnce ==
    [][\A k \in Slots :
        (DeAllocateLocked(k) /\ SecondOfTwo(k) /\ AllUsesCovered) => AllUsesCovered'
      ]_vars

(***************************************************************************)
(* parallelize, checked under SpecPar and SpecParFair                      *)
(***************************************************************************)
\* the workers inside a callback
ParRunning == {g \in ParWorkers : parWorkers[g].pc = "work"}

ParReturned == parMain = "returned"

\* C34 as stated: at most parallelism callbacks run at the same time,
\* parallelize returns only after every worker has finished, it returns nil
\* when every callback returned nil and otherwise the first error that a
\* callback produced.
C34_ReturnsFirstProducedError ==
    /\ Cardinality(ParRunning) <= parallelism
    /\ ParReturned =>
         /\ \A g \in ParWorkers : parWorkers[g].pc = "done"
         /\ parProduced = <<>> => parResult = NoError
         /\ parProduced # <<>> => parResult = parProduced[1]

\* C34: at most parallelism callbacks run at the same time, parallelize
\* returns only after every worker has finished, it returns nil exactly when
\* every callback returned nil, and otherwise the error that was put into
\* errch first, which is the error of one of the failed callbacks but not
\* always of the one that failed first.
C34_ReturnsFirstBufferedError ==
    /\ Cardinality(ParRunning) <= parallelism
    /\ Len(parErrch) <= parallelism
    /\ ParReturned =>
         /\ \A g \in ParWorkers : parWorkers[g].pc = "done"
         /\ parProduced = <<>> <=> parResult = NoError
         /\ parProduced # <<>> =>
               /\ parResult = parErrch[1]
               /\ parResult \in Range(parProduced)
               /\ Range(parErrch) = Range(parProduced)

\* two callbacks failed, the one that failed later put its error into errch
\* first, and parallelize returned that error
C34_Witness ==
    /\ ParReturned
    /\ Len(parProduced) = 2
    /\ parResult = parProduced[2]
    /\ parResult # parProduced[1]

\* the items the producer has to send
ParAllItems == 1..parItems

\* C39: the callback is invoked at most once per item, and exactly once per
\* item when no callback fails; parallelize always returns, with the
\* producer goroutine finished, also when every worker stopped on an error
\* while items were unsent; the items left after an error are drained
\* without the callback being invoked on them.
C39_EveryItemOnceAndTerminates ==
    /\ [](\A i \in ParAllItems : parInvoked[i] <= 1)
    /\ [](\A i \in parDrained : parInvoked[i] = 0)
    /\ [](ParReturned =>
            /\ parSent = parItems /\ parClosed
            /\ parProduced = <<>> => \A i \in ParAllItems : parInvoked[i] = 1
            /\ \A i \in ParAllItems : parInvoked[i] = 1 \/ i \in parDrained)
    /\ <>ParReturned

\* every worker stopped on an error while items were unsent; parallelize
\* drained them and returned
C39_Witness ==
    /\ ParReturned
    /\ parallelism = MaxParallelism
    /\ Len(parErrch) = parallelism
    /\ Cardinality(parDrained) = parItems - parallelism
    /\ parDrained # {}

=============================================================================
